---- MODULE Spec2Model ----
(***************************************************************************)
(* Cyclone AI code-review bot: webhook trigger, tenant resolution, size    *)
(* gate and the per-PR review task, modelled from the Go sources.          *)
(*                                                                         *)
(* Strings that the program only compares are TLA+ strings.  Byte strings  *)
(* the program computes on (signature header, hex digest) are sequences of *)
(* byte codes.  Formatted texts (skip notice, warning banner, summary) are *)
(* sequences of text pieces, so that concatenation is \o.                  *)
(***************************************************************************)
EXTENDS Integers, Sequences, FiniteSets, TLC

VARIABLES
    secret,        \* bot.config.GitHubWebhookSecret, a byte string (<<>> = "")
    githubApp,     \* bot.githubApp # nil (set once by New)
    db,            \* rows of the Supabase tables, in the order a query returns them
    reviewConfig,  \* ReviewConfig of the single-file program (review-config.json)
    requests,      \* number of webhook requests handled so far
    last,          \* the request handled last and what the handler did with it
    tasks,         \* the goroutines launched by handleWebhook, in launch order
    probe          \* input and result of a function applied on its own

vars == <<secret, githubApp, db, reviewConfig, requests, last, tasks, probe>>

----------------------------------------------------------------------------
(* Bounds of the model *)

\* bytes of a MAC digest (32 in the program)
DigestBytes == 1
\* webhook requests handled in one behaviour
MaxRequests == 2
\* the number of files a pull request lists
MaxFiles == 2
\* the number of sections a model response is made of
MaxSections == 3

----------------------------------------------------------------------------
(* Bytes, hex and the webhook signature: internal/bot/webhook.go *)

RECURSIVE Pow2(_)
Pow2(n) == IF n = 0 THEN 1 ELSE 2 * Pow2(n - 1)

\* v with bit i inverted
FlipBit(v, i) == IF (v \div Pow2(i)) % 2 = 1 THEN v - Pow2(i) ELSE v + Pow2(i)

\* one lower-case hex digit, as hex.EncodeToString writes it
HexChar(d) == IF d < 10 THEN 48 + d ELSE 87 + d

\* hex.EncodeToString of the n-byte big-endian value v
RECURSIVE EncodeToString(_, _)
EncodeToString(v, n) ==
    IF n = 0 THEN <<>>
    ELSE EncodeToString(v \div 256, n - 1)
            \o <<HexChar((v % 256) \div 16), HexChar(v % 16)>>

RECURSIVE KeySum(_)
KeySum(key) == IF key = <<>> THEN 0 ELSE Head(key) + KeySum(Tail(key))

\* hmac.New(sha256.New, key); mac.Write(payload); mac.Sum(nil).  The MAC is
\* idealised: a keyed function of the payload byte that is one-to-one on the
\* payloads of the model (167 is odd, so multiplication by it permutes the
\* residues of any power of two).
hmacSum(key, payload) == (payload * 167 + KeySum(key) * 59 + 113) % Pow2(8 * DigestBytes)

\* the literal "sha256="
Sha256Prefix == <<115, 104, 97, 50, 53, 54, 61>>

\* plausible slip: the digest is never compared
validateWebhookSignature_NoCompare(key, payload, signature) == signature # <<>>

validateWebhookSignature(key, payload, signature) ==
    IF signature = <<>> THEN FALSE
    ELSE LET sig == IF Len(signature) > 7 /\ SubSeq(signature, 1, 7) = Sha256Prefix
                    THEN SubSeq(signature, 8, Len(signature))
                    ELSE signature
             expectedMAC == EncodeToString(hmacSum(key, payload), DigestBytes)
         IN  sig = expectedMAC

\* what GitHub sends for a body under a key
SignatureHeader(key, payload) ==
    Sha256Prefix \o EncodeToString(hmacSum(key, payload), DigestBytes)

\* header h with one bit of the pos-th digest character inverted
MutateDigest(h, pos, bit) == [h EXCEPT ![7 + pos] = FlipBit(@, bit)]

----------------------------------------------------------------------------
(* The webhook payload: WebhookPayload, and the nil-safe getters of go-github *)

\* a nil *github.PullRequest: every getter returns the zero value
NilPR == [nil |-> TRUE, Draft |-> FALSE, Number |-> 0,
          ChangedFiles |-> 0, Additions |-> 0, Deletions |-> 0]

\* a nil *github.Repository: GetOwner().GetLogin() and GetName() return ""
NilRepo == [nil |-> TRUE, Owner |-> "", Name |-> ""]

\* the pull requests a body can carry
SmallPR == [nil |-> FALSE, Draft |-> FALSE, Number |-> 7,
            ChangedFiles |-> 3, Additions |-> 50, Deletions |-> 10]
BigPR   == [nil |-> FALSE, Draft |-> FALSE, Number |-> 8,
            ChangedFiles |-> 30, Additions |-> 900, Deletions |-> 0]
PRVariants == <<NilPR, SmallPR, BigPR>>

\* the repositories a body can carry
RepoVariants == <<NilRepo,
                  [nil |-> FALSE, Owner |-> "orgX", Name |-> "repoA"],
                  [nil |-> FALSE, Owner |-> "orgY", Name |-> "repoB"]>>

\* the installation objects a body can carry (nil: no "installation" key)
InstallationVariants == <<[nil |-> TRUE, ID |-> 0],
                          [nil |-> FALSE, ID |-> 1],
                          [nil |-> FALSE, ID |-> 2]>>

ActionNames == <<"opened", "ready_for_review", "synchronize", "closed">>

\* number of well-formed bodies of the wire format below
WellFormed == Len(ActionNames) * 2 * Len(PRVariants) * Len(RepoVariants)
                  * Len(InstallationVariants)

\* plausible slip: the decoding error is dropped and the zero payload used
Unmarshal_Lenient(body) ==
    IF body < 1 \/ body > WellFormed
    THEN [err |-> FALSE, Action |-> "", PullRequest |-> NilPR,
          Repository |-> NilRepo, Installation |-> InstallationVariants[1]]
    ELSE LET v  == body - 1
             pr == PRVariants[((v \div 8) % 3) + 1]
         IN  [err |-> FALSE,
              Action |-> ActionNames[(v % 4) + 1],
              PullRequest |-> IF pr.nil THEN pr
                              ELSE [pr EXCEPT !.Draft = ((v \div 4) % 2 = 1)],
              Repository |-> RepoVariants[((v \div 24) % 3) + 1],
              Installation |-> InstallationVariants[((v \div 72) % 3) + 1]]

\* json.Unmarshal(body, &payload).  A body is one byte; bytes 1..WellFormed
\* enumerate the payloads field by field and every other byte is not JSON.
Unmarshal(body) ==
    IF body < 1 \/ body > WellFormed
    THEN [err |-> TRUE, Action |-> "", PullRequest |-> NilPR,
          Repository |-> NilRepo, Installation |-> InstallationVariants[1]]
    ELSE LET v  == body - 1
             pr == PRVariants[((v \div 8) % 3) + 1]
         IN  [err |-> FALSE,
              Action |-> ActionNames[(v % 4) + 1],
              PullRequest |-> IF pr.nil THEN pr
                              ELSE [pr EXCEPT !.Draft = ((v \div 4) % 2 = 1)],
              Repository |-> RepoVariants[((v \div 24) % 3) + 1],
              Installation |-> InstallationVariants[((v \div 72) % 3) + 1]]

\* the body that decodes to the given field choices (indices from 0)
BodyOf(action, draft, pr, repo, inst) ==
    1 + action + 4 * draft + 8 * pr + 24 * repo + 72 * inst

----------------------------------------------------------------------------
(* handleWebhook and shouldTriggerReview: internal/bot/webhook.go *)

\* plausible slip: synchronize events trigger a review as well
shouldTriggerReview_Sync(action, pr) ==
    IF pr.Draft THEN FALSE
    ELSE action \in {"opened", "ready_for_review", "synchronize"}

\* plausible slip: a payload without a pull request triggers nothing
shouldTriggerReview_NilGuard(action, pr) ==
    IF pr.nil \/ pr.Draft THEN FALSE
    ELSE action \in {"opened", "ready_for_review"}

shouldTriggerReview(action, pr) ==
    IF pr.Draft THEN FALSE
    ELSE CASE action = "opened"           -> TRUE
           [] action = "ready_for_review" -> TRUE
           [] action = "synchronize"      -> FALSE
           [] OTHER                       -> FALSE

\* plausible slip: the signature is checked whether or not a secret is set
SignatureRequired_Always(key) == TRUE

\* webhook.go:39, the guard of the signature check
SignatureRequired(key) == key # <<>>

NoLaunch == [go |-> FALSE, Repository |-> NilRepo, PullRequest |-> NilPR,
             installationID |-> 0]

\* plausible slip: the body is decoded before its signature is checked
handleWebhook_DecodeFirst(key, r) ==
    IF r.method # "POST"
    THEN [status |-> 405, steps |-> <<"method">>, launch |-> NoLaunch]
    ELSE IF r.readErr
    THEN [status |-> 400, steps |-> <<"method", "read">>, launch |-> NoLaunch]
    ELSE LET payload == Unmarshal(r.body)
             post    == IF SignatureRequired(key) THEN <<"signature">> ELSE <<>>
         IN  IF payload.err
             THEN [status |-> 400, steps |-> <<"method", "read", "decode">>,
                   launch |-> NoLaunch]
             ELSE IF SignatureRequired(key)
                     /\ ~validateWebhookSignature(key, r.body, r.signature)
             THEN [status |-> 401, steps |-> <<"method", "read", "decode", "signature">>,
                   launch |-> NoLaunch]
             ELSE IF ~shouldTriggerReview(payload.Action, payload.PullRequest)
             THEN [status |-> 200,
                   steps |-> <<"method", "read", "decode">> \o post \o <<"trigger">>,
                   launch |-> NoLaunch]
             ELSE [status |-> 200,
                   steps |-> <<"method", "read", "decode">> \o post
                                \o <<"trigger", "go">>,
                   launch |-> [go |-> TRUE,
                               Repository |-> payload.Repository,
                               PullRequest |-> payload.PullRequest,
                               installationID |->
                                   IF payload.Installation.nil THEN 0
                                   ELSE payload.Installation.ID]]

\* The handler as a function of the configuration and the request: the HTTP
\* status it writes, the steps it went through, and the goroutine it starts.
handleWebhook(key, r) ==
    IF r.method # "POST"
    THEN [status |-> 405, steps |-> <<"method">>, launch |-> NoLaunch]
    ELSE IF r.readErr
    THEN [status |-> 400, steps |-> <<"method", "read">>, launch |-> NoLaunch]
    ELSE IF SignatureRequired(key) /\ ~validateWebhookSignature(key, r.body, r.signature)
    THEN [status |-> 401, steps |-> <<"method", "read", "signature">>,
          launch |-> NoLaunch]
    ELSE LET pre     == <<"method", "read">>
                          \o (IF SignatureRequired(key) THEN <<"signature">> ELSE <<>>)
             payload == Unmarshal(r.body)
         IN  IF payload.err
             THEN [status |-> 400, steps |-> pre \o <<"decode">>, launch |-> NoLaunch]
             ELSE IF ~shouldTriggerReview(payload.Action, payload.PullRequest)
             THEN [status |-> 200, steps |-> pre \o <<"decode", "trigger">>,
                   launch |-> NoLaunch]
             ELSE [status |-> 200, steps |-> pre \o <<"decode", "trigger", "go">>,
                   launch |-> [go |-> TRUE,
                               Repository |-> payload.Repository,
                               PullRequest |-> payload.PullRequest,
                               installationID |->
                                   IF payload.Installation.nil THEN 0
                                   ELSE payload.Installation.ID]]

\* unset locals of a task
NoConfig == [nil |-> TRUE, Name |-> "", Precision |-> "", CustomPrompt |-> ""]
NoSizeCheck == [ShouldReview |-> FALSE, WarningMessage |-> <<>>, SkipMessage |-> <<>>]
NoReview == [Summary |-> <<>>, Comments |-> <<>>]

\* the goroutine `go bot.ProcessPullRequest(repo, pr, installationID)` at its start
NewTask(l) ==
    [pc |-> "start", repo |-> l.Repository, pr |-> l.PullRequest,
     installationID |-> l.installationID,
     repoConfig |-> NoConfig, sizeCheck |-> NoSizeCheck,
     client |-> "none", diff |-> <<>>, review |-> NoReview,
     queries |-> <<>>, calls |-> <<>>]

\* written: the response header has been sent; status 0 until then
NoRequest == [method |-> "", readErr |-> FALSE, body |-> 0, signature |-> <<>>,
              status |-> 0, steps |-> <<>>, written |-> TRUE]

\* plausible slip: an event for a pull request that a running task is already
\* reviewing starts no second task
HandleWebhook_Deduplicated(R) ==
    /\ requests < MaxRequests
    /\ last.written
    /\ \E r \in R :
          LET h == handleWebhook(secret, r)
              running == \E t \in 1..Len(tasks) :
                            /\ tasks[t].pc # "done"
                            /\ tasks[t].repo = h.launch.Repository
                            /\ tasks[t].pr.Number = h.launch.PullRequest.Number
          IN  /\ last' = [method |-> r.method, readErr |-> r.readErr, body |-> r.body,
                          signature |-> r.signature,
                          status |-> IF h.launch.go THEN 0 ELSE h.status,
                          steps |-> h.steps,
                          written |-> ~h.launch.go]
              /\ tasks' = IF h.launch.go /\ ~running
                          THEN Append(tasks, NewTask(h.launch)) ELSE tasks
    /\ requests' = requests + 1
    /\ UNCHANGED <<secret, githubApp, db, reviewConfig, probe>>

\* One request drawn from R, handled up to its response or, when it triggers,
\* up to the go statement of webhook.go:72: the goroutine exists and the
\* handler has still to write the header.
HandleWebhook(R) ==
    /\ requests < MaxRequests
    /\ last.written
    /\ \E r \in R :
          LET h == handleWebhook(secret, r)
          IN  /\ last' = [method |-> r.method, readErr |-> r.readErr, body |-> r.body,
                          signature |-> r.signature,
                          status |-> IF h.launch.go THEN 0 ELSE h.status,
                          steps |-> h.steps,
                          written |-> ~h.launch.go]
              /\ tasks' = IF h.launch.go THEN Append(tasks, NewTask(h.launch)) ELSE tasks
    /\ requests' = requests + 1
    /\ UNCHANGED <<secret, githubApp, db, reviewConfig, probe>>

\* plausible slip: the handler waits for the task and reports how it ended
Respond_AfterTask ==
    /\ ~last.written
    /\ tasks[Len(tasks)].pc = "done"
    /\ last' = [last EXCEPT
                   !.status = IF \E i \in 1..Len(tasks[Len(tasks)].calls) :
                                    /\ tasks[Len(tasks)].calls[i].api = "CreateReview"
                                    /\ tasks[Len(tasks)].calls[i].ok
                              THEN 200 ELSE 500,
                   !.written = TRUE]
    /\ UNCHANGED <<secret, githubApp, db, reviewConfig, requests, tasks, probe>>

\* webhook.go:74, w.WriteHeader(http.StatusOK) after the go statement: it runs
\* beside the goroutine and reads nothing of it
Respond ==
    /\ ~last.written
    /\ last' = [last EXCEPT !.status = 200, !.written = TRUE]
    /\ UNCHANGED <<secret, githubApp, db, reviewConfig, requests, tasks, probe>>

----------------------------------------------------------------------------
(* Tenant store: internal/config/supabase.go, internal/config/provider.go *)

NoInstallation == [ID |-> 0, InstallationID |-> 0]

\* GET /rest/v1/installation?installation_id=eq.<installationID>
\* up: the store answered 200 with a decodable body
GetInstallationByInstallationID(d, installationID, up) ==
    LET Match(r) == r.InstallationID = installationID
        installations == SelectSeq(d.installation, Match)
    IN  IF ~up \/ installations = <<>>
        THEN [err |-> TRUE, row |-> NoInstallation]
        ELSE [err |-> FALSE, row |-> installations[1]]

\* the filter of supabase.go:60, "installation_id=eq.%d": orgName is not in it
OrganizationQuery(r, installationDBID, orgName) ==
    r.installation_id = installationDBID

\* GET /rest/v1/organization?installation_id=eq.<installationDBID>
GetOrganizationByInstallationAndName(d, installationDBID, orgName, up) ==
    LET Match(r) == OrganizationQuery(r, installationDBID, orgName)
        organizations == SelectSeq(d.organization, Match)
    IN  IF ~up \/ organizations = <<>>
        THEN [err |-> TRUE, rows |-> <<>>]
        ELSE [err |-> FALSE, rows |-> organizations]

\* the filter of supabase.go:91, "organization_id=eq.%d&name=eq.%s"
RepositoryQuery(r, organizationID, repoName) ==
    r.organization_id = organizationID /\ r.Name = repoName

\* GET /rest/v1/repository?organization_id=eq.<organizationID>&name=eq.<repoName>
GetRepositoryByOrganizationAndName(d, organizationID, repoName, up) ==
    LET Match(r) == RepositoryQuery(r, organizationID, repoName)
        repositories == SelectSeq(d.repository, Match)
    IN  IF ~up \/ repositories = <<>>
        THEN [err |-> TRUE, rows |-> <<>>]
        ELSE [err |-> FALSE, rows |-> repositories]

\* one request to the store: the table, the parent id of the filter and the
\* name of the filter ("" where the filter has none)
Query(table, key, name) == [table |-> table, key |-> key, name |-> name]

\* plausible slip: the organisation is looked up with the external installation
\* id of the event instead of the id of the installation row
GetRepositoryConfig_ExternalID(d, orgName, repoName, installationID, outage) ==
    LET i == GetInstallationByInstallationID(d, installationID, outage # 1)
        q1 == Query("installation", installationID, "")
    IN  IF i.err
        THEN [config |-> NoConfig, queries |-> <<q1>>]
        ELSE LET o == GetOrganizationByInstallationAndName(d, installationID, orgName,
                                                           outage # 2)
                 q2 == Query("organization", installationID, "")
             IN  IF o.err
                 THEN [config |-> NoConfig, queries |-> <<q1, q2>>]
                 ELSE LET r == GetRepositoryByOrganizationAndName(
                                   d, o.rows[1].ID, repoName, outage # 3)
                          q3 == Query("repository", o.rows[1].ID, repoName)
                      IN  [config |->
                              IF r.err THEN NoConfig
                              ELSE [nil |-> FALSE, Name |-> r.rows[1].Name,
                                    Precision |-> r.rows[1].Precision,
                                    CustomPrompt |-> r.rows[1].CustomPrompt],
                           queries |-> <<q1, q2, q3>>]

\* SupabaseProvider.GetRepositoryConfig.  outage: the lookup (1, 2 or 3) at which
\* the store fails, 0 for none.  queries: the lookups issued, in order.
GetRepositoryConfig(d, orgName, repoName, installationID, outage) ==
    LET i == GetInstallationByInstallationID(d, installationID, outage # 1)
        q1 == Query("installation", installationID, "")
    IN  IF i.err
        THEN [config |-> NoConfig, queries |-> <<q1>>]
        ELSE LET o == GetOrganizationByInstallationAndName(d, i.row.ID, orgName,
                                                           outage # 2)
                 q2 == Query("organization", i.row.ID, "")
             IN  IF o.err
                 THEN [config |-> NoConfig, queries |-> <<q1, q2>>]
                 ELSE LET r == GetRepositoryByOrganizationAndName(
                                   d, o.rows[1].ID, repoName, outage # 3)
                          q3 == Query("repository", o.rows[1].ID, repoName)
                      IN  [config |->
                              IF r.err THEN NoConfig
                              ELSE [nil |-> FALSE, Name |-> r.rows[1].Name,
                                    Precision |-> r.rows[1].Precision,
                                    CustomPrompt |-> r.rows[1].CustomPrompt],
                           queries |-> <<q1, q2, q3>>]

----------------------------------------------------------------------------
(* Static tenant configuration of the single-file program: main.go *)

\* main.go:758
IsWildcard(name) == name = "*" \/ name = "default"

\* getRepositoryConfig: organisations in file order; in a matching organisation
\* the exact name first, then the first wildcard entry in file order
RECURSIVE getRepositoryConfig(_, _, _)
getRepositoryConfig(orgs, owner, repoName) ==
    IF orgs = <<>> THEN NoConfig
    ELSE LET org == Head(orgs)
             Exact(r) == r.Name = repoName
             Wild(r)  == IsWildcard(r.Name)
             exact == SelectSeq(org.Repositories, Exact)
             wild  == SelectSeq(org.Repositories, Wild)
             Found(r) == [nil |-> FALSE, Name |-> r.Name, Precision |-> r.Precision,
                          CustomPrompt |-> r.CustomPrompt]
         IN  IF org.Name = owner /\ exact # <<>> THEN Found(exact[1])
             ELSE IF org.Name = owner /\ wild # <<>> THEN Found(wild[1])
             ELSE getRepositoryConfig(Tail(orgs), owner, repoName)

----------------------------------------------------------------------------
(* Size gate: checkPRSize in internal/bot (unnamed/part_003), limits of main.go *)

MAX_FILES_FOR_REVIEW     == 25
MAX_ADDITIONS_FOR_REVIEW == 800
MAX_TOTAL_CHANGES        == 1200
WARN_FILES_THRESHOLD     == 20
WARN_ADDITIONS_THRESHOLD == 400

\* one piece of a formatted text: a fixed template and the numbers printed in it
Piece(kind, args) == [kind |-> kind, args |-> args]

\* the three skip notices, part_003:151-168, 175-192, 199-207
FilesNotice(files) ==
    <<Piece("notice_files", <<files, MAX_FILES_FOR_REVIEW>>)>>
AdditionsNotice(additions) ==
    <<Piece("notice_additions", <<additions, MAX_ADDITIONS_FOR_REVIEW>>)>>
TotalNotice(totalChanges, additions, deletions) ==
    <<Piece("notice_total", <<totalChanges, additions, deletions, MAX_TOTAL_CHANGES>>)>>

\* part_003:211-237: the warning banner, "" (<<>>) when no threshold is exceeded
WarningBanner(files, additions) ==
    LET warnings ==
            (IF files > WARN_FILES_THRESHOLD
             THEN <<Piece("warn_files", <<files, WARN_FILES_THRESHOLD>>)>> ELSE <<>>)
         \o (IF additions > WARN_ADDITIONS_THRESHOLD
             THEN <<Piece("warn_additions", <<additions, WARN_ADDITIONS_THRESHOLD>>)>>
             ELSE <<>>)
    IN  IF Len(warnings) = 0 THEN <<>>
        ELSE IF Len(warnings) = 1
        THEN <<Piece("warning_head", <<>>), warnings[1], Piece("newline", <<>>),
               Piece("warning_foot", <<>>)>>
        ELSE <<Piece("warning_head", <<>>), warnings[1], warnings[2],
               Piece("warning_foot", <<>>)>>

\* plausible slip: ShouldReview is left true on a skip
Skip_StillReviewed(notice) ==
    [ShouldReview |-> TRUE, WarningMessage |-> <<>>, SkipMessage |-> notice]

Skip(notice) == [ShouldReview |-> FALSE, WarningMessage |-> <<>>, SkipMessage |-> notice]

\* plausible slip: the limits are compared with >=
checkPRSize_OrEqual(pr) ==
    IF pr.ChangedFiles >= MAX_FILES_FOR_REVIEW THEN Skip(FilesNotice(pr.ChangedFiles))
    ELSE IF pr.Additions >= MAX_ADDITIONS_FOR_REVIEW
    THEN Skip(AdditionsNotice(pr.Additions))
    ELSE IF pr.Additions + pr.Deletions >= MAX_TOTAL_CHANGES
    THEN Skip(TotalNotice(pr.Additions + pr.Deletions, pr.Additions, pr.Deletions))
    ELSE [ShouldReview |-> TRUE,
          WarningMessage |-> WarningBanner(pr.ChangedFiles, pr.Additions),
          SkipMessage |-> <<>>]

\* plausible slip: the addition limit is tested before the file limit
checkPRSize_AdditionsFirst(pr) ==
    IF pr.Additions > MAX_ADDITIONS_FOR_REVIEW THEN Skip(AdditionsNotice(pr.Additions))
    ELSE IF pr.ChangedFiles > MAX_FILES_FOR_REVIEW
    THEN Skip(FilesNotice(pr.ChangedFiles))
    ELSE IF pr.Additions + pr.Deletions > MAX_TOTAL_CHANGES
    THEN Skip(TotalNotice(pr.Additions + pr.Deletions, pr.Additions, pr.Deletions))
    ELSE [ShouldReview |-> TRUE,
          WarningMessage |-> WarningBanner(pr.ChangedFiles, pr.Additions),
          SkipMessage |-> <<>>]

checkPRSize(pr) ==
    LET files        == pr.ChangedFiles
        additions    == pr.Additions
        deletions    == pr.Deletions
        totalChanges == additions + deletions
    IN  IF files > MAX_FILES_FOR_REVIEW THEN Skip(FilesNotice(files))
        ELSE IF additions > MAX_ADDITIONS_FOR_REVIEW THEN Skip(AdditionsNotice(additions))
        ELSE IF totalChanges > MAX_TOTAL_CHANGES
        THEN Skip(TotalNotice(totalChanges, additions, deletions))
        ELSE [ShouldReview |-> TRUE,
              WarningMessage |-> WarningBanner(files, additions),
              SkipMessage |-> <<>>]

----------------------------------------------------------------------------
(* Review protocol engine: main.go.  A text is a sequence of pieces; the      *)
(* pieces the parser looks for are the keywords, the $$ delimiter, the colon, *)
(* white space and numbers.                                                   *)

Tok(kind) == Piece(kind, <<>>)
Word(n)   == Piece("word", <<n>>)
Num(n)    == Piece("num", <<n>>)

\* strings.Index from position `from` on: the first position holding a piece of
\* that kind, 0 when there is none
IndexFrom(text, kind, from) ==
    LET hits == {i \in from..Len(text) : text[i].kind = kind}
    IN  IF hits = {} THEN 0 ELSE CHOOSE i \in hits : \A j \in hits : i <= j

\* strings.LastIndex
LastIndex(text, kind) ==
    LET hits == {i \in 1..Len(text) : text[i].kind = kind}
    IN  IF hits = {} THEN 0 ELSE CHOOSE i \in hits : \A j \in hits : i >= j

\* strings.TrimSpace
RECURSIVE TrimLeft(_)
TrimLeft(text) ==
    IF text # <<>> /\ Head(text).kind = "space" THEN TrimLeft(Tail(text)) ELSE text
RECURSIVE TrimRight(_)
TrimRight(text) ==
    IF text # <<>> /\ text[Len(text)].kind = "space"
    THEN TrimRight(SubSeq(text, 1, Len(text) - 1)) ELSE text
TrimSpace(text) == TrimRight(TrimLeft(text))

\* strings.SplitN(text, sep, n): at most n parts, the last one unsplit
RECURSIVE SplitN(_, _, _)
SplitN(text, sep, n) ==
    LET i == IndexFrom(text, sep, 1)
    IN  IF n = 1 \/ i = 0 THEN <<text>>
        ELSE <<SubSeq(text, 1, i - 1)>>
                 \o SplitN(SubSeq(text, i + 1, Len(text)), sep, n - 1)

\* strings.Split(text, sep)
Split(text, sep) == SplitN(text, sep, Len(text) + 1)

\* plausible slip: the delimiters are looked for from the start of the text
\* instead of from the section header on
extractSection_FirstDelims(text, sectionHeader) ==
    LET startIndex == IndexFrom(text, sectionHeader, 1)
        delimStart == IF startIndex = 0 THEN 0 ELSE IndexFrom(text, "$$", 1)
        delimEnd   == IF delimStart = 0 THEN 0 ELSE IndexFrom(text, "$$", delimStart + 1)
    IN  IF startIndex = 0 \/ delimStart = 0 \/ delimEnd = 0 THEN <<>>
        ELSE TrimSpace(SubSeq(text, delimStart + 1, delimEnd - 1))

\* main.go:595-619
extractSection(text, sectionHeader) ==
    LET startIndex == IndexFrom(text, sectionHeader, 1)
        delimStart == IF startIndex = 0 THEN 0 ELSE IndexFrom(text, "$$", startIndex)
        delimEnd   == IF delimStart = 0 THEN 0 ELSE IndexFrom(text, "$$", delimStart + 1)
    IN  IF startIndex = 0 \/ delimStart = 0 \/ delimEnd = 0 THEN <<>>
        ELSE TrimSpace(SubSeq(text, delimStart + 1, delimEnd - 1))

\* strconv.Atoi: the text is one number and nothing else
AtoiOK(text) == Len(text) = 1 /\ text[1].kind = "num"

\* the colon that ends a section keyword is a colon to strings.SplitN as well
RECURSIVE KeywordColons(_)
KeywordColons(text) ==
    IF text = <<>> THEN <<>>
    ELSE (CASE Head(text).kind = "SUMMARY:" -> <<Tok("SUMMARY"), Tok(":")>>
            [] Head(text).kind = "POEM:"    -> <<Tok("POEM"), Tok(":")>>
            [] OTHER                        -> <<Head(text)>>)
         \o KeywordColons(Tail(text))

\* main.go:621-663; <<>> for nil, else a one-element list
parsePRCommentBlock(block) ==
    LET startDelim == IndexFrom(block, "$$", 1)
        endDelim   == LastIndex(block, "$$")
    IN  IF startDelim = 0 \/ endDelim <= startDelim THEN <<>>
        ELSE LET header  == TrimSpace(SubSeq(block, 1, startDelim - 1))
                 content == TrimSpace(SubSeq(block, startDelim + 1, endDelim - 1))
                 parts   == SplitN(KeywordColons(header), ":", 3)
             IN  IF Len(parts) < 3 THEN <<>>
                 ELSE LET file         == TrimSpace(parts[1])
                          lineNumStr   == TrimSpace(parts[2])
                          categoryPart == TrimSpace(parts[3])
                      IN  IF ~AtoiOK(lineNumStr) THEN <<>>
                          ELSE <<[Path |-> file,
                                  Line |-> lineNumStr[1].args[1],
                                  Side |-> "RIGHT",
                                  Body |-> categoryPart \o <<Tok("blankline")>>
                                              \o content]>>

\* plausible slip: the loop ends at the first block that yields no comment
RECURSIVE CommentsOf_StopAtNil(_)
CommentsOf_StopAtNil(parts) ==
    IF parts = <<>> \/ parsePRCommentBlock(Head(parts)) = <<>> THEN <<>>
    ELSE parsePRCommentBlock(Head(parts)) \o CommentsOf_StopAtNil(Tail(parts))

\* main.go:573-578
RECURSIVE CommentsOf(_)
CommentsOf(parts) ==
    IF parts = <<>> THEN <<>>
    ELSE parsePRCommentBlock(Head(parts)) \o CommentsOf(Tail(parts))

\* plausible slip: the header is put in front of a summary only, not of nothing
parseClaudeResponse_BrandIfSummary(claudeText, diff) ==
    LET summary  == extractSection(claudeText, "SUMMARY:")
        poem     == extractSection(claudeText, "POEM:")
        parts    == Split(claudeText, "PR_COMMENT:")
        comments == CommentsOf(Tail(parts))
        finalSummary == summary
                          \o (IF poem # <<>> THEN <<Tok("poem_separator")>> \o poem
                              ELSE <<>>)
    IN  [Summary |-> IF summary # <<>> THEN <<Tok("brand_header")>> \o finalSummary
                     ELSE finalSummary,
         Comments |-> comments]

\* main.go:560-593; the diff is a parameter that the function does not read
parseClaudeResponse(claudeText, diff) ==
    LET summary  == extractSection(claudeText, "SUMMARY:")
        poem     == extractSection(claudeText, "POEM:")
        parts    == Split(claudeText, "PR_COMMENT:")
        comments == CommentsOf(Tail(parts))
        finalSummary == summary
                          \o (IF poem # <<>> THEN <<Tok("poem_separator")>> \o poem
                              ELSE <<>>)
    IN  [Summary |-> <<Tok("brand_header")>> \o finalSummary, Comments |-> comments]

\* main.go:397-437: what callClaudeAPIWithConfig returns for each outcome of the call
callClaudeAPIWithConfig(outcome, text) ==
    CASE outcome = "ok"    -> text
      [] outcome = "empty" -> <<Tok("No response from Claude")>>
      [] OTHER             -> <<Tok("Error generating AI review")>>

\* main.go:298-301
getAIReviewWithConfig(outcome, text, diff) ==
    parseClaudeResponse(callClaudeAPIWithConfig(outcome, text), diff)

----------------------------------------------------------------------------
(* Diff construction: getPRDiff and isBinaryFile of main.go.  A file name is *)
(* the sequence of its byte codes.                                            *)

\* main.go:245-252
binaryExtensions ==
    <<
      <<46, 112, 110, 103>>,                \* .png
      <<46, 106, 112, 103>>,                \* .jpg
      <<46, 106, 112, 101, 103>>,           \* .jpeg
      <<46, 103, 105, 102>>,                \* .gif
      <<46, 105, 99, 111>>,                 \* .ico
      <<46, 115, 118, 103>>,                \* .svg
      <<46, 112, 100, 102>>,                \* .pdf
      <<46, 122, 105, 112>>,                \* .zip
      <<46, 116, 97, 114>>,                 \* .tar
      <<46, 103, 122>>,                     \* .gz
      <<46, 98, 122, 50>>,                  \* .bz2
      <<46, 120, 122>>,                     \* .xz
      <<46, 101, 120, 101>>,                \* .exe
      <<46, 100, 108, 108>>,                \* .dll
      <<46, 115, 111>>,                     \* .so
      <<46, 100, 121, 108, 105, 98>>,       \* .dylib
      <<46, 119, 111, 102, 102>>,           \* .woff
      <<46, 119, 111, 102, 102, 50>>,       \* .woff2
      <<46, 116, 116, 102>>,                \* .ttf
      <<46, 101, 111, 116>>,                \* .eot
      <<46, 109, 112, 51>>,                 \* .mp3
      <<46, 109, 112, 52>>,                 \* .mp4
      <<46, 97, 118, 105>>,                 \* .avi
      <<46, 109, 111, 118>>,                \* .mov
      <<46, 99, 108, 97, 115, 115>>,        \* .class
      <<46, 106, 97, 114>>,                 \* .jar
      <<46, 119, 97, 114>>                  \* .war
    >>

\* strings.ToLower on one byte
ToLowerByte(c) == IF c \in 65..90 THEN c + 32 ELSE c

\* strings.ToLower
ToLower(name) == [i \in 1..Len(name) |-> ToLowerByte(name[i])]

\* strings.HasSuffix
HasSuffix(name, suffix) ==
    /\ Len(suffix) <= Len(name)
    /\ SubSeq(name, Len(name) - Len(suffix) + 1, Len(name)) = suffix

\* plausible slip: the name is not lower-cased before the comparison
isBinaryFile_CaseSensitive(filename) ==
    \E i \in 1..Len(binaryExtensions) : HasSuffix(filename, binaryExtensions[i])

\* main.go:244-261
isBinaryFile(filename) ==
    \E i \in 1..Len(binaryExtensions) :
        HasSuffix(ToLower(filename), binaryExtensions[i])

\* main.go:235-237: "=== name ===\n", the patch, "\n\n"
Fragment(file) ==
    <<Piece("file_marker", file.Filename)>> \o file.Patch \o <<Piece("blank", <<>>)>>

\* main.go:223-238: the loop over the listed files
RECURSIVE diffBuilder(_)
diffBuilder(files) ==
    IF files = <<>> THEN <<>>
    ELSE LET file == Head(files)
         IN  (IF file.Patch = <<>> \/ file.Changes > 500 THEN <<>>
              ELSE IF isBinaryFile(file.Filename) THEN <<>>
              ELSE Fragment(file))
             \o diffBuilder(Tail(files))

\* main.go:215-241; listed = FALSE when ListFiles fails
getPRDiff(listed, files) ==
    IF ~listed THEN [err |-> TRUE, diff |-> <<>>]
    ELSE [err |-> FALSE, diff |-> diffBuilder(files)]

FileGo       == <<97, 46, 103, 111>>   \* a.go
FilePng      == <<97, 46, 112, 110, 103>>   \* a.png
FilePngUpper == <<97, 46, 80, 78, 71>>   \* a.PNG
FileNamedPng == <<112, 110, 103>>   \* png
FilePngTxt   == <<97, 46, 112, 110, 103, 46, 116, 120, 116>>   \* a.png.txt
FileTarGz    == <<97, 46, 116, 97, 114, 46, 103, 122>>   \* a.tar.gz

----------------------------------------------------------------------------
(* The review task: ProcessPullRequest in internal/bot (unnamed/part_003) *)

\* one call to an outside service, as the task issued it
Call(api, client, body, comments, ok) ==
    [api |-> api, client |-> client, body |-> body, comments |-> comments, ok |-> ok]

\* plausible slip: the nil check of the configuration is missing
Untracked_Never(repoConfig) == FALSE

\* part_003:91
Untracked(repoConfig) == repoConfig.nil

\* plausible slip: the banner is appended instead of prepended
WithWarning_Appended(sizeCheck, review) ==
    [review EXCEPT !.Summary = review.Summary \o sizeCheck.WarningMessage]

\* part_003:126-129
WithWarning(sizeCheck, review) ==
    IF sizeCheck.WarningMessage # <<>>
    THEN [review EXCEPT !.Summary = sizeCheck.WarningMessage \o review.Summary]
    ELSE review

\* part_003:54-68 with GetInstallationToken (github_app_auth.go:67-86).
\* outcome: "jwtErr" signing fails, "exchangeErr" the token endpoint fails, "ok"
createInstallationClient(app, outcome) ==
    IF ~app.auth
    THEN [err |-> FALSE, client |-> "static", calls |-> <<>>]
    ELSE CASE outcome = "jwtErr" ->
                [err |-> TRUE, client |-> "none", calls |-> <<>>]
           [] outcome = "exchangeErr" ->
                [err |-> TRUE, client |-> "none",
                 calls |-> <<Call("CreateInstallationToken", "jwt", <<>>, <<>>, FALSE)>>]
           [] OTHER ->
                [err |-> FALSE, client |-> "installation",
                 calls |-> <<Call("CreateInstallationToken", "jwt", <<>>, <<>>, TRUE)>>]

AuthOutcomes == {"jwtErr", "exchangeErr", "ok"}

\* plausible slip: the review is created with its body only
postPRReview_SummaryOnly(client, review, ok) ==
    Call("CreateReview", client, review.Summary, <<>>, ok)

\* main.go:665-691: one CreateReview request carrying the body and every comment
postPRReview(client, review, ok) ==
    Call("CreateReview", client, review.Summary, review.Comments, ok)

\* the diff documents GetPRDiff can hand back: of a PR with an image only, and
\* of a PR with one source file
DiffDocuments ==
    {getPRDiff(TRUE, <<[Filename |-> f, Patch |-> <<Word(1)>>, Changes |-> 3]>>).diff :
        f \in {FilePng, FileGo}}

\* the texts the model can answer with
ModelTexts ==
    { <<Tok("SUMMARY:"), Tok("$$"), Word(1), Tok("$$"),
        Tok("PR_COMMENT:"), Word(2), Tok(":"), Num(10), Tok(":"), Word(3),
        Tok("$$"), Word(4), Tok("$$")>>,
      <<Word(5)>> }

ModelOutcomes == {"ok", "empty", "error"}

\* part_003:83-108: tenant lookup, then the size gate
StepResolve(t) ==
    /\ tasks[t].pc = "start"
    /\ \E outage \in 0..3 :
          LET tk  == tasks[t]
              res == GetRepositoryConfig(db, tk.repo.Owner, tk.repo.Name,
                                         tk.installationID, outage)
              sizeCheck == checkPRSize(tk.pr)
          IN  tasks' = [tasks EXCEPT ![t] =
                  IF Untracked(res.config)
                  THEN [tk EXCEPT !.pc = "done", !.queries = res.queries]
                  ELSE [tk EXCEPT !.repoConfig = res.config,
                                  !.queries = res.queries,
                                  !.sizeCheck = sizeCheck,
                                  !.pc = IF ~sizeCheck.ShouldReview THEN "comment"
                                         ELSE "auth"]]
    /\ UNCHANGED <<secret, githubApp, db, reviewConfig, requests, last, probe>>

\* plausible slip: the return after the skip notice is missing
StepComment_FallThrough(t) ==
    /\ tasks[t].pc = "comment"
    /\ \E ok \in BOOLEAN :
          tasks' = [tasks EXCEPT ![t].pc = "auth",
                                 ![t].calls = Append(@, Call("CreateComment", "static",
                                       tasks[t].sizeCheck.SkipMessage, <<>>, ok))]
    /\ UNCHANGED <<secret, githubApp, db, reviewConfig, requests, last, probe>>

\* plausible slip: the installation client is made before the size gate is
\* looked at, and the skip notice is posted with it
StepComment_InstallationClient(t) ==
    /\ tasks[t].pc = "comment"
    /\ \E ok \in BOOLEAN, outcome \in AuthOutcomes :
          LET c == createInstallationClient(githubApp, outcome)
          IN  tasks' = [tasks EXCEPT
                  ![t].pc = "done",
                  ![t].client = c.client,
                  ![t].calls = IF c.err THEN @ \o c.calls
                               ELSE @ \o c.calls \o
                                    <<Call("CreateComment", c.client,
                                           tasks[t].sizeCheck.SkipMessage, <<>>, ok)>>]
    /\ UNCHANGED <<secret, githubApp, db, reviewConfig, requests, last, probe>>

\* part_003:98-106: the skip notice as a plain issue comment, with bot.githubClient
StepComment(t) ==
    /\ tasks[t].pc = "comment"
    /\ \E ok \in BOOLEAN :
          tasks' = [tasks EXCEPT ![t].pc = "done",
                                 ![t].calls = Append(@, Call("CreateComment", "static",
                                       tasks[t].sizeCheck.SkipMessage, <<>>, ok))]
    /\ UNCHANGED <<secret, githubApp, db, reviewConfig, requests, last, probe>>

\* part_003:110-114
StepAuth(t) ==
    /\ tasks[t].pc = "auth"
    /\ \E outcome \in AuthOutcomes :
          LET c == createInstallationClient(githubApp, outcome)
          IN  tasks' = [tasks EXCEPT ![t].pc = IF c.err THEN "done" ELSE "diff",
                                     ![t].client = c.client,
                                     ![t].calls = @ \o c.calls]
    /\ UNCHANGED <<secret, githubApp, db, reviewConfig, requests, last, probe>>

\* plausible slip: the return after a failed diff fetch is missing
StepDiff_NoReturn(t) ==
    /\ tasks[t].pc = "diff"
    /\ \/ tasks' = [tasks EXCEPT ![t].pc = "model",
                                 ![t].calls = Append(@, Call("ListFiles",
                                       tasks[t].client, <<>>, <<>>, FALSE))]
       \/ \E d \in DiffDocuments :
             tasks' = [tasks EXCEPT ![t].pc = "model",
                                    ![t].diff = d,
                                    ![t].calls = Append(@, Call("ListFiles",
                                          tasks[t].client, <<>>, <<>>, TRUE))]
    /\ UNCHANGED <<secret, githubApp, db, reviewConfig, requests, last, probe>>

\* part_003:116-121
StepDiff(t) ==
    /\ tasks[t].pc = "diff"
    /\ \/ tasks' = [tasks EXCEPT ![t].pc = "done",
                                 ![t].calls = Append(@, Call("ListFiles",
                                       tasks[t].client, <<>>, <<>>, FALSE))]
       \/ \E d \in DiffDocuments :
             tasks' = [tasks EXCEPT ![t].pc = "model",
                                    ![t].diff = d,
                                    ![t].calls = Append(@, Call("ListFiles",
                                          tasks[t].client, <<>>, <<>>, TRUE))]
    /\ UNCHANGED <<secret, githubApp, db, reviewConfig, requests, last, probe>>

\* part_003:123-129
StepModel(t) ==
    /\ tasks[t].pc = "model"
    /\ \E outcome \in ModelOutcomes, text \in ModelTexts :
          LET reviewResult == getAIReviewWithConfig(outcome, text, tasks[t].diff)
          IN  tasks' = [tasks EXCEPT ![t].pc = "post",
                                     ![t].review =
                                         WithWarning(tasks[t].sizeCheck, reviewResult),
                                     ![t].calls = Append(@, Call("Messages", "anthropic",
                                           <<>>, <<>>, outcome = "ok"))]
    /\ UNCHANGED <<secret, githubApp, db, reviewConfig, requests, last, probe>>

\* plausible slip: a failed posting call is tried a second time
StepPost_RetryOnce(t) ==
    /\ tasks[t].pc = "post"
    /\ \/ tasks' = [tasks EXCEPT ![t].pc = "done",
                                 ![t].calls = Append(@,
                                       postPRReview(tasks[t].client, tasks[t].review, TRUE))]
       \/ \E ok \in BOOLEAN :
             tasks' = [tasks EXCEPT ![t].pc = "done",
                                    ![t].calls = @ \o
                                       <<postPRReview(tasks[t].client, tasks[t].review, FALSE),
                                         postPRReview(tasks[t].client, tasks[t].review, ok)>>]
    /\ UNCHANGED <<secret, githubApp, db, reviewConfig, requests, last, probe>>

\* part_003:131-137
StepPost(t) ==
    /\ tasks[t].pc = "post"
    /\ \E ok \in BOOLEAN :
          tasks' = [tasks EXCEPT ![t].pc = "done",
                                 ![t].calls = Append(@,
                                       postPRReview(tasks[t].client, tasks[t].review, ok))]
    /\ UNCHANGED <<secret, githubApp, db, reviewConfig, requests, last, probe>>

----------------------------------------------------------------------------
(* Configurations and inputs *)

\* every order of the elements of a finite set
Orderings(S) ==
    {f \in [1..Cardinality(S) -> S] : \A i, j \in 1..Cardinality(S) : f[i] = f[j] => i = j}

\* installation 3 has no organisation yet
InstallationRows == <<[ID |-> 10, InstallationID |-> 1],
                      [ID |-> 20, InstallationID |-> 2],
                      [ID |-> 30, InstallationID |-> 3]>>

\* orgX and orgY are rows of installation 1; another orgY belongs to installation 2
OrganizationRows == {[ID |-> 100, Name |-> "orgX", installation_id |-> 10],
                     [ID |-> 200, Name |-> "orgY", installation_id |-> 10],
                     [ID |-> 300, Name |-> "orgY", installation_id |-> 20]}

RepositoryRows ==
    <<[ID |-> 1, Name |-> "repoA", Precision |-> "strict",
       CustomPrompt |-> "orgX/repoA", organization_id |-> 100],
      [ID |-> 2, Name |-> "*", Precision |-> "medium",
       CustomPrompt |-> "orgX/*", organization_id |-> 100],
      [ID |-> 3, Name |-> "repoA", Precision |-> "minor",
       CustomPrompt |-> "orgY/repoA", organization_id |-> 200],
      [ID |-> 4, Name |-> "repoA", Precision |-> "medium",
       CustomPrompt |-> "orgY@2/repoA", organization_id |-> 300]>>

Reverse(q) == [i \in 1..Len(q) |-> q[Len(q) + 1 - i]]

\* the stores of the model: the same rows in every order the store may return them
Stores == {[installation |-> InstallationRows, organization |-> o, repository |-> r] :
              o \in Orderings(OrganizationRows),
              r \in {RepositoryRows, Reverse(RepositoryRows)}}

DefaultStore ==
    [installation |-> InstallationRows,
     organization |-> <<[ID |-> 100, Name |-> "orgX", installation_id |-> 10],
                        [ID |-> 200, Name |-> "orgY", installation_id |-> 10],
                        [ID |-> 300, Name |-> "orgY", installation_id |-> 20]>>,
     repository |-> RepositoryRows]

\* review-config.json of the single-file program
StaticRepos(org) ==
    IF org = "orgX"
    THEN {[Name |-> "repoA", Precision |-> "strict", CustomPrompt |-> "orgX/repoA"],
          [Name |-> "*", Precision |-> "medium", CustomPrompt |-> "orgX/*"]}
    ELSE {[Name |-> "*", Precision |-> "minor", CustomPrompt |-> "orgY/*"],
          [Name |-> "default", Precision |-> "medium", CustomPrompt |-> "orgY/default"],
          [Name |-> "repoA", Precision |-> "strict", CustomPrompt |-> "orgY/repoA"]}

ReviewConfigs ==
    {<<[Name |-> "orgX", Repositories |-> x], [Name |-> "orgY", Repositories |-> y]>> :
        x \in Orderings(StaticRepos("orgX")), y \in Orderings(StaticRepos("orgY"))}

DefaultReviewConfig ==
    <<[Name |-> "orgX",
       Repositories |-> <<[Name |-> "repoA", Precision |-> "strict",
                           CustomPrompt |-> "orgX/repoA"],
                          [Name |-> "*", Precision |-> "medium",
                           CustomPrompt |-> "orgX/*"]>>]>>

\* bot.New (part_003:32-40): configured = application id and key path both set;
\* auth = NewGitHubAppAuth succeeded, so bot.githubApp is not nil
GitHubApps == {[configured |-> FALSE, auth |-> FALSE],
               [configured |-> TRUE,  auth |-> FALSE],
               [configured |-> TRUE,  auth |-> TRUE]}

ServerKey == <<107>>
Secrets == {<<>>, ServerKey}

NoProbe == [op |-> "none"]

\* the signature headers a sender can put on a body: none, the right one, the
\* bare digest, one with a digest bit inverted, and one made with another key
HeadersFor(body) ==
    {<<>>,
     SignatureHeader(ServerKey, body),
     EncodeToString(hmacSum(ServerKey, body), DigestBytes),
     MutateDigest(SignatureHeader(ServerKey, body), 1, 0),
     SignatureHeader(<<120>>, body)}

Request(method, readErr, body, signature) ==
    [method |-> method, readErr |-> readErr, body |-> body, signature |-> signature]

\* bodies of the webhook specification: not JSON (0); every action and draft
\* flag with a small PR, a repository and an installation; and opened,
\* ready_for_review and synchronize events with any of the three objects absent
WebhookBodies ==
    {0} \cup {BodyOf(a, d, 1, 1, 1) : a \in 0..3, d \in 0..1}
        \cup {BodyOf(a, 0, pr, repo, inst) :
                 a \in 0..2, pr \in 0..1, repo \in 0..1, inst \in 0..1}

WebhookRequests ==
    UNION {{Request("POST", FALSE, b, h) : h \in HeadersFor(b)} : b \in WebhookBodies}
    \cup UNION {{Request(m, e, b, h) :
                    m \in {"POST", "GET"}, e \in BOOLEAN,
                    h \in {<<>>, SignatureHeader(ServerKey, b)}} :
                b \in {0, BodyOf(0, 0, 1, 1, 1)}}

InitConfig ==
    /\ secret \in Secrets
    /\ githubApp \in GitHubApps
    /\ db = DefaultStore
    /\ reviewConfig = DefaultReviewConfig
    /\ probe = NoProbe

Init ==
    /\ InitConfig
    /\ requests = 0
    /\ last = NoRequest
    /\ tasks = <<>>

\* the endpoint does not read bot.githubApp
InitWebhook ==
    /\ Init
    /\ githubApp.auth

----------------------------------------------------------------------------
(* The webhook endpoint on its own: requests of every shape, tasks not run *)

NextWebhook == HandleWebhook(WebhookRequests) \/ Respond

SpecWebhook == InitWebhook /\ [][NextWebhook]_vars


HasStep(l, step) == \E i \in 1..Len(l.steps) : l.steps[i] = step

MatchesHMAC(key, body, signature) ==
    LET digest == EncodeToString(hmacSum(key, body), DigestBytes)
    IN  signature = digest \/ signature = Sha256Prefix \o digest

\* C2: a POST whose body was read is answered 401, without decoding, trigger
\* decision or task, exactly when a secret is configured and the signature
\* header is missing or does not match the body's HMAC; with no secret the
\* signature is not looked at and the request goes on to decoding.
C2_SignatureGate ==
    [][(requests' = requests + 1 /\ last'.method = "POST" /\ ~last'.readErr)
          => LET bad == /\ secret # <<>>
                        /\ \/ last'.signature = <<>>
                           \/ ~MatchesHMAC(secret, last'.body, last'.signature)
             IN  /\ (last'.status = 401) <=> bad
                 /\ bad => /\ ~HasStep(last', "decode")
                           /\ ~HasStep(last', "trigger")
                           /\ tasks' = tasks
                 /\ ~bad => HasStep(last', "decode")
                 /\ secret = <<>> => ~HasStep(last', "signature")]_vars

\* with a secret set, a POST signed with another key was answered 401 and no task exists
C2_Witness ==
    /\ requests = 1
    /\ secret # <<>>
    /\ last.method = "POST"
    /\ last.signature = SignatureHeader(<<120>>, last.body)
    /\ last.status = 401
    /\ tasks = <<>>

----------------------------------------------------------------------------
(* validateWebhookSignature on its own *)

SignatureKeys == {ServerKey, <<120>>}

\* the headers tried against a key and a body: none, the right one, the bare
\* digest, every single-bit mutation of the digest, the right header of every
\* body that differs in one bit, and the header made with the other key
SignatureCandidates(key, body) ==
    {<<>>, SignatureHeader(key, body), EncodeToString(hmacSum(key, body), DigestBytes)}
    \cup {MutateDigest(SignatureHeader(key, body), pos, bit) :
             pos \in 1..(2 * DigestBytes), bit \in 0..7}
    \cup {SignatureHeader(key, FlipBit(body, bit)) : bit \in 0..7}
    \cup {SignatureHeader(k, body) : k \in SignatureKeys}

InitSignature ==
    /\ secret \in SignatureKeys
    /\ githubApp = [configured |-> FALSE, auth |-> FALSE]
    /\ db = DefaultStore
    /\ reviewConfig = DefaultReviewConfig
    /\ requests = 0
    /\ last = NoRequest
    /\ tasks = <<>>
    /\ \E body \in 0..255 :
          \E signature \in SignatureCandidates(secret, body) :
             probe = [op |-> "validateWebhookSignature", payload |-> body,
                      signature |-> signature, out |-> "none"]

ValidateSignature ==
    /\ probe.op = "validateWebhookSignature"
    /\ probe.out = "none"
    /\ probe' = [probe EXCEPT !.out =
                    IF validateWebhookSignature(secret, probe.payload, probe.signature)
                    THEN "accepted" ELSE "rejected"]
    /\ UNCHANGED <<secret, githubApp, db, reviewConfig, requests, last, tasks>>

SpecSignature == InitSignature /\ [][ValidateSignature]_vars

\* C3: for a fixed secret and body, the header sha256=<hex HMAC of the body> is
\* accepted; that header with any single bit of its digest inverted is rejected,
\* and so is the header of the body when the body presented differs from it in
\* any single bit.
C3_SignatureSingleBit ==
    (probe.op = "validateWebhookSignature" /\ probe.out # "none") =>
        LET good == SignatureHeader(secret, probe.payload)
        IN  /\ probe.signature = good => probe.out = "accepted"
            /\ \A pos \in 1..(2 * DigestBytes), bit \in 0..7 :
                  probe.signature = MutateDigest(good, pos, bit)
                      => probe.out = "rejected"
            /\ \A bit \in 0..7 :
                  probe.signature = SignatureHeader(secret, FlipBit(probe.payload, bit))
                      => probe.out = "rejected"

\* a header whose last digest character has its top bit inverted was rejected
C3_Witness ==
    /\ probe.op = "validateWebhookSignature"
    /\ probe.signature =
           MutateDigest(SignatureHeader(secret, probe.payload), 2 * DigestBytes, 7)
    /\ probe.out = "rejected"

----------------------------------------------------------------------------
(* The two tenant resolvers on their own *)

OrgNames == {"orgX", "orgY", "orgZ"}
RepoNames == {"repoA", "repoB", "*"}

NoResolution == [done |-> FALSE, config |-> NoConfig, queries |-> <<>>]

InitTenant ==
    /\ secret = <<>>
    /\ githubApp = [configured |-> FALSE, auth |-> FALSE]
    /\ requests = 0
    /\ last = NoRequest
    /\ tasks = <<>>
    /\ \E orgName \in OrgNames, repoName \in RepoNames :
          \/ /\ db \in Stores
             /\ reviewConfig = DefaultReviewConfig
             /\ \E installationID \in 0..3, outage \in 0..3 :
                   probe = [op |-> "GetRepositoryConfig", orgName |-> orgName,
                            repoName |-> repoName, installationID |-> installationID,
                            outage |-> outage, out |-> NoResolution]
          \/ /\ db = DefaultStore
             /\ reviewConfig \in ReviewConfigs
             /\ probe = [op |-> "getRepositoryConfig", orgName |-> orgName,
                         repoName |-> repoName, installationID |-> 0,
                         outage |-> 0, out |-> NoResolution]

\* SupabaseProvider.GetRepositoryConfig applied to the request
ResolveSupabase ==
    /\ probe.op = "GetRepositoryConfig"
    /\ ~probe.out.done
    /\ LET res == GetRepositoryConfig(db, probe.orgName, probe.repoName,
                                      probe.installationID, probe.outage)
       IN  probe' = [probe EXCEPT !.out = [done |-> TRUE, config |-> res.config,
                                           queries |-> res.queries]]
    /\ UNCHANGED <<secret, githubApp, db, reviewConfig, requests, last, tasks>>

\* getRepositoryConfig of the single-file program applied to the request
ResolveStatic ==
    /\ probe.op = "getRepositoryConfig"
    /\ ~probe.out.done
    /\ probe' = [probe EXCEPT !.out =
                    [done |-> TRUE,
                     config |-> getRepositoryConfig(reviewConfig, probe.orgName,
                                                    probe.repoName),
                     queries |-> <<>>]]
    /\ UNCHANGED <<secret, githubApp, db, reviewConfig, requests, last, tasks>>

NextTenant == ResolveSupabase \/ ResolveStatic

SpecTenant == InitTenant /\ [][NextTenant]_vars

\* the rows of a table that satisfy a condition, as a set
RowsOf(table) == {table[i] : i \in 1..Len(table)}

\* the names of the organisations a policy of the store is filed under
PolicyOrganizations(d, config) ==
    {o.Name : o \in {x \in RowsOf(d.organization) :
                        \E r \in RowsOf(d.repository) :
                            /\ r.CustomPrompt = config.CustomPrompt
                            /\ r.organization_id = x.ID}}

\* C4: for a request naming an organisation, GetRepositoryConfig never returns
\* a policy stored under an organisation of another name.
C4_ScopeStrict ==
    (probe.op = "GetRepositoryConfig" /\ probe.out.done /\ ~probe.out.config.nil)
        => PolicyOrganizations(db, probe.out.config) = {probe.orgName}

\* the organisation row the Supabase resolver settles on, when it is the one named
NamedOrganizationResolved ==
    /\ probe.op = "GetRepositoryConfig"
    /\ probe.out.done
    /\ probe.outage = 0
    /\ Len(probe.out.queries) = 3
    /\ \E inst \in RowsOf(db.installation) :
          /\ inst.InstallationID = probe.installationID
          /\ LET orgs == SelectSeq(db.organization,
                                   LAMBDA o : o.installation_id = inst.ID)
             IN  orgs # <<>> /\ orgs[1].Name = probe.orgName

\* the policies of the store filed under the organisation named in the request,
\* for the installation of the request
PoliciesOfNamed ==
    {r \in RowsOf(db.repository) :
        \E inst \in RowsOf(db.installation), o \in RowsOf(db.organization) :
            /\ inst.InstallationID = probe.installationID
            /\ o.installation_id = inst.ID
            /\ o.Name = probe.orgName
            /\ r.organization_id = o.ID}

\* C5: within the resolved organisation a repository with an exact entry
\* resolves to that entry even when a wildcard entry exists, and a repository
\* without an exact entry resolves to the organisation's wildcard entry (* or
\* default) when there is one.  Stated of both resolvers.
C5_WildcardFallback ==
    /\ NamedOrganizationResolved =>
          LET exact == {r \in PoliciesOfNamed : r.Name = probe.repoName}
              wild  == {r \in PoliciesOfNamed : r.Name \in {"*", "default"}}
          IN  /\ exact # {} => \E r \in exact :
                                  probe.out.config.CustomPrompt = r.CustomPrompt
              /\ (exact = {} /\ wild # {}) =>
                      \E r \in wild : probe.out.config.CustomPrompt = r.CustomPrompt
    /\ (probe.op = "getRepositoryConfig" /\ probe.out.done) =>
          \A i \in 1..Len(reviewConfig) :
              (reviewConfig[i].Name = probe.orgName) =>
                  LET repos == RowsOf(reviewConfig[i].Repositories)
                      exact == {r \in repos : r.Name = probe.repoName}
                      wild  == {r \in repos : r.Name \in {"*", "default"}}
                  IN  /\ exact # {} => \E r \in exact :
                              probe.out.config.CustomPrompt = r.CustomPrompt
                      /\ (exact = {} /\ wild # {}) => \E r \in wild :
                              probe.out.config.CustomPrompt = r.CustomPrompt

\* the static configuration has, for the organisation named, no exact entry but
\* both a * and a default entry
BothWildcards ==
    /\ probe.op = "getRepositoryConfig"
    /\ probe.out.done
    /\ \E i \in 1..Len(reviewConfig) :
          /\ reviewConfig[i].Name = probe.orgName
          /\ \A r \in RowsOf(reviewConfig[i].Repositories) : r.Name # probe.repoName
          /\ \E r \in RowsOf(reviewConfig[i].Repositories) : r.Name = "*"
          /\ \E r \in RowsOf(reviewConfig[i].Repositories) : r.Name = "default"

\* C6 as claimed: with no exact entry and both a * and a default entry, the
\* resolver returns the * entry whatever the order of the two.
C6_StarBeforeDefault ==
    BothWildcards => probe.out.config.Name = "*"

\* what getRepositoryConfig does in the case of C6: with no exact entry and
\* both a * and a default entry, it returns whichever of the two is stored first.
C6_FirstStoredWildcard ==
    BothWildcards =>
        \A i \in 1..Len(reviewConfig) :
            reviewConfig[i].Name = probe.orgName =>
                LET repos == reviewConfig[i].Repositories
                    first == CHOOSE k \in 1..Len(repos) :
                                 /\ repos[k].Name \in {"*", "default"}
                                 /\ \A j \in 1..(k - 1) :
                                        repos[j].Name \notin {"*", "default"}
                IN  /\ probe.out.config.Name = repos[first].Name
                    /\ probe.out.config.CustomPrompt = repos[first].CustomPrompt

\* the case of C6 where the order matters: default is stored before * and the
\* default entry was returned
C6_Witness ==
    /\ BothWildcards
    /\ probe.out.config.Name = "default"
    /\ \E i \in 1..Len(reviewConfig) :
          /\ reviewConfig[i].Name = probe.orgName
          /\ \E j, k \in 1..Len(reviewConfig[i].Repositories) :
                /\ j < k
                /\ reviewConfig[i].Repositories[j].Name = "default"
                /\ reviewConfig[i].Repositories[k].Name = "*"

\* C24: the resolver queries the installation table by the installation id of
\* the event, then the organization table by the id of the installation row it
\* found, then the repository table by the id of an organisation row of that
\* installation and the repository name; a lookup that fails or finds nothing
\* ends the resolution without a policy and without a query to a later table.
C24_LookupOrder ==
    (probe.op = "GetRepositoryConfig" /\ probe.out.done) =>
       LET q == probe.out.queries
           installations == {i \in RowsOf(db.installation) :
                                i.InstallationID = probe.installationID}
           OrganizationsOf(key) == {o \in RowsOf(db.organization) :
                                       o.installation_id = key}
           RepositoriesOf(key) == {r \in RowsOf(db.repository) :
                                      r.organization_id = key /\ r.Name = probe.repoName}
           stop1 == probe.outage = 1 \/ installations = {}
           stop2 == probe.outage = 2 \/ OrganizationsOf(q[2].key) = {}
           stop3 == probe.outage = 3 \/ RepositoriesOf(q[3].key) = {}
       IN  /\ Len(q) \in 1..3
           /\ q[1] = Query("installation", probe.installationID, "")
           /\ Len(q) = 1 <=> stop1
           /\ Len(q) >= 2 =>
                 /\ q[2].table = "organization"
                 /\ \E i \in installations : q[2].key = i.ID
                 /\ Len(q) = 2 <=> stop2
           /\ Len(q) = 3 =>
                 /\ q[3].table = "repository"
                 /\ \E o \in OrganizationsOf(q[2].key) : q[3].key = o.ID
                 /\ q[3].name = probe.repoName
                 /\ probe.out.config.nil <=> stop3
                 /\ ~probe.out.config.nil =>
                       \E r \in RepositoriesOf(q[3].key) :
                          probe.out.config.CustomPrompt = r.CustomPrompt
           /\ Len(q) < 3 => probe.out.config.nil

\* the store answers every query, the installation of the event is known and
\* has no organisation: the resolution ends after two queries
C24_Witness ==
    /\ probe.op = "GetRepositoryConfig"
    /\ probe.out.done
    /\ probe.outage = 0
    /\ probe.installationID = 3
    /\ Len(probe.out.queries) = 2
    /\ probe.out.queries[2] = Query("organization", 30, "")
    /\ probe.out.config.nil

----------------------------------------------------------------------------
(* One review task on its own, for pull requests of every size class *)

\* pull requests at and around every limit of the size gate, and no pull request
GatePRs ==
    {NilPR} \cup
    {[nil |-> FALSE, Draft |-> FALSE, Number |-> 7,
      ChangedFiles |-> f, Additions |-> a, Deletions |-> d] :
        f \in {20, 21, 25, 26}, a \in {400, 401, 800, 801}, d \in {0, 400, 401, 800}}

RepoSet == {RepoVariants[i] : i \in 1..Len(RepoVariants)}

\* a task launched by an earlier request, followed from its first step
InitTask ==
    /\ InitConfig
    /\ secret = <<>>
    /\ requests = 1
    /\ last = NoRequest
    /\ \E repo \in RepoSet, pr \in GatePRs, installationID \in 0..2 :
          tasks = <<NewTask([go |-> TRUE, Repository |-> repo, PullRequest |-> pr,
                             installationID |-> installationID])>>

\* each step, taken by any task that stands at it
Resolve     == \E t \in 1..Len(tasks) : StepResolve(t)
PostComment == \E t \in 1..Len(tasks) : StepComment(t)
Authenticate == \E t \in 1..Len(tasks) : StepAuth(t)
GetPRDiff   == \E t \in 1..Len(tasks) : StepDiff(t)
GenerateReview == \E t \in 1..Len(tasks) : StepModel(t)
PostReview  == \E t \in 1..Len(tasks) : StepPost(t)

NextTask ==
    \/ Resolve
    \/ PostComment
    \/ Authenticate
    \/ GetPRDiff
    \/ GenerateReview
    \/ PostReview

SpecTask == InitTask /\ [][NextTask]_vars

Apis(tk) == {tk.calls[i].api : i \in 1..Len(tk.calls)}

\* C7: a task whose tenant resolution yielded no policy has ended and has made
\* no call to an outside service (no comment, review, token exchange, diff fetch
\* or model call), whatever the size of the pull request.
C7_UntrackedSilent ==
    \A t \in 1..Len(tasks) :
        (tasks[t].pc # "start" /\ tasks[t].repoConfig.nil)
            => tasks[t].pc = "done" /\ tasks[t].calls = <<>>

\* an untracked repository with a PR of 26 files: the task ended without a call
C7_Witness ==
    \E t \in 1..Len(tasks) :
        /\ tasks[t].pc = "done"
        /\ tasks[t].repoConfig.nil
        /\ Len(tasks[t].queries) = 3
        /\ tasks[t].pr.ChangedFiles = 26
        /\ tasks[t].calls = <<>>

OverHardLimit(pr) ==
    \/ pr.ChangedFiles > 25
    \/ pr.Additions > 800
    \/ pr.Additions + pr.Deletions > 1200

\* C8: the size gate of a tracked PR says skip exactly when files > 25 or
\* additions > 800 or additions + deletions > 1200; a skipped task posts the
\* skip notice as one plain issue comment and makes no other call (no model
\* call, no review).
C8_HardSkip ==
    \A t \in 1..Len(tasks) :
        (tasks[t].pc # "start" /\ ~tasks[t].repoConfig.nil) =>
            LET tk == tasks[t]
            IN  /\ ~tk.sizeCheck.ShouldReview <=> OverHardLimit(tk.pr)
                /\ OverHardLimit(tk.pr) =>
                      /\ tk.sizeCheck.SkipMessage # <<>>
                      /\ \/ tk.pc = "comment" /\ tk.calls = <<>>
                         \/ /\ tk.pc = "done"
                            /\ Len(tk.calls) = 1
                            /\ tk.calls[1].api = "CreateComment"
                            /\ tk.calls[1].body = tk.sizeCheck.SkipMessage
                            /\ tk.calls[1].comments = <<>>

\* 25 files, 800 additions, 1201 changes in all: skipped, and the notice posted
C8_Witness ==
    \E t \in 1..Len(tasks) :
        /\ tasks[t].pr.ChangedFiles = 25
        /\ tasks[t].pr.Additions = 800
        /\ tasks[t].pr.Deletions = 401
        /\ tasks[t].pc = "done"
        /\ Apis(tasks[t]) = {"CreateComment"}

WarningKinds == {"warning_head", "warn_files", "warn_additions", "warning_foot"}

IsPrefix(p, q) == Len(p) <= Len(q) /\ SubSeq(q, 1, Len(p)) = p

\* C10: a tracked PR over no hard limit goes on to the review and never gets a
\* plain comment; when files > 20 or additions > 400 the body of its one review
\* begins with the warning text (naming each exceeded threshold), followed by
\* the engine's summary, and otherwise the body holds no warning text.
C10_WarningPrepended ==
    \A t \in 1..Len(tasks) :
        (tasks[t].pc # "start" /\ ~tasks[t].repoConfig.nil
                               /\ ~OverHardLimit(tasks[t].pr)) =>
            LET tk   == tasks[t]
                warn == tk.pr.ChangedFiles > 20 \/ tk.pr.Additions > 400
                w    == tk.sizeCheck.WarningMessage
                reviews == {i \in 1..Len(tk.calls) : tk.calls[i].api = "CreateReview"}
            IN  /\ tk.pc \in {"auth", "diff", "model", "post", "done"}
                /\ "CreateComment" \notin Apis(tk)
                /\ Cardinality(reviews) <= 1
                /\ warn <=> w # <<>>
                /\ warn => /\ w[1].kind = "warning_head"
                           /\ (tk.pr.ChangedFiles > 20) <=>
                                 \E i \in 1..Len(w) :
                                    w[i] = Piece("warn_files", <<tk.pr.ChangedFiles, 20>>)
                           /\ (tk.pr.Additions > 400) <=>
                                 \E i \in 1..Len(w) :
                                    w[i] = Piece("warn_additions", <<tk.pr.Additions, 400>>)
                /\ \A i \in reviews :
                      LET body == tk.calls[i].body
                      IN  /\ IsPrefix(w, body)
                          /\ body[Len(w) + 1].kind = "brand_header"
                          /\ \A j \in (Len(w) + 1)..Len(body) :
                                body[j].kind \notin WarningKinds

\* a PR of 21 files and 401 additions was reviewed, the banner first in the body
C10_Witness ==
    \E t \in 1..Len(tasks) :
        /\ tasks[t].pr.ChangedFiles = 21
        /\ tasks[t].pr.Additions = 401
        /\ tasks[t].pc = "done"
        /\ \E i \in 1..Len(tasks[t].calls) :
              /\ tasks[t].calls[i].api = "CreateReview"
              /\ tasks[t].calls[i].body[1].kind = "warning_head"
              /\ Len(tasks[t].calls[i].body) > 5

\* the text holds the piece
Contains(text, piece) == \E i \in 1..Len(text) : text[i] = piece

\* the fixed texts callClaudeAPIWithConfig returns when the call fails
FailureLiterals == {Tok("Error generating AI review"), Tok("No response from Claude")}

\* C16: when the model call failed, the task still goes on to publish, and the
\* summary it publishes holds the fixed error text.
C16_ErrorTextPublished ==
    \A t \in 1..Len(tasks) :
        \A i \in 1..Len(tasks[t].calls) :
            (tasks[t].calls[i].api = "Messages" /\ ~tasks[t].calls[i].ok) =>
                /\ tasks[t].pc \in {"post", "done"}
                /\ \E e \in FailureLiterals : Contains(tasks[t].review.Summary, e)

\* C17: with GitHub-App authentication configured, a task gets past the
\* authentication step only with an installation token: every authenticator
\* failure ends the task before the diff fetch, and the static credential
\* serves a review only when the application was never configured.
C17_AppFailureAborts ==
    \A t \in 1..Len(tasks) :
        (githubApp.configured /\ ~tasks[t].repoConfig.nil
                              /\ tasks[t].sizeCheck.ShouldReview) =>
            /\ tasks[t].client # "static"
            /\ \A i \in 1..Len(tasks[t].calls) :
                  tasks[t].calls[i].api \in {"ListFiles", "CreateReview"}
                      => tasks[t].calls[i].client = "installation"

\* C20: a task publishes its review by one CreateReview call that carries the
\* summary and every parsed comment together; that call is the task's last
\* call whether it succeeded or failed, and the task posts nothing else.
C20_SingleAtomicReview ==
    \A t \in 1..Len(tasks) :
        LET tk == tasks[t]
            reviews == {i \in 1..Len(tk.calls) : tk.calls[i].api = "CreateReview"}
        IN  /\ Cardinality(reviews) <= 1
            /\ (tk.pc = "done" /\ "Messages" \in Apis(tk)) => Cardinality(reviews) = 1
            /\ \A i \in reviews :
                  /\ i = Len(tk.calls)
                  /\ tk.pc = "done"
                  /\ tk.calls[i].body = tk.review.Summary
                  /\ tk.calls[i].comments = tk.review.Comments
                  /\ "CreateComment" \notin Apis(tk)

\* a review with one line comment was sent in one call, the call failed, and
\* the task ended there
C20_Witness ==
    \E t \in 1..Len(tasks) :
        /\ tasks[t].pc = "done"
        /\ Len(tasks[t].review.Comments) = 1
        /\ tasks[t].calls[Len(tasks[t].calls)].api = "CreateReview"
        /\ ~tasks[t].calls[Len(tasks[t].calls)].ok
        /\ Len(tasks[t].calls[Len(tasks[t].calls)].comments) = 1

\* the task has a policy and its size gate let the pull request through
GatePassed(tk) ==
    /\ tk.queries # <<>>
    /\ ~tk.repoConfig.nil
    /\ tk.sizeCheck.ShouldReview

\* calls[i] is issued with the client that installation authentication handed
\* back, and the token exchange, where there is one, succeeded just before
AfterAuth(tk, i) ==
    /\ tk.client \in {"static", "installation"}
    /\ tk.calls[i].client = tk.client
    /\ IF githubApp.auth
       THEN /\ i = 2
            /\ tk.calls[1].api = "CreateInstallationToken"
            /\ tk.calls[1].ok
            /\ tk.client = "installation"
       ELSE i = 1 /\ tk.client = "static"

\* C22: the steps of a task come in the order tenant resolution, size gate,
\* installation authentication, diff fetch, model invocation, publication: the
\* size gate is evaluated only with a policy at hand, the token exchange only
\* after the gate let the pull request through, the diff is fetched right after
\* authentication succeeded, the model is called right after a successful diff
\* fetch, and the review is created right after the model call.
C22_StepOrder ==
    \A t \in 1..Len(tasks) :
       LET tk == tasks[t]
       IN  /\ tk.sizeCheck # NoSizeCheck => tk.queries # <<>> /\ ~tk.repoConfig.nil
           /\ \A i \in 1..Len(tk.calls) :
                 LET c == tk.calls[i]
                 IN  /\ c.api = "CreateInstallationToken" => i = 1 /\ GatePassed(tk)
                     /\ c.api = "ListFiles" => GatePassed(tk) /\ AfterAuth(tk, i)
                     /\ c.api = "Messages" =>
                           /\ i >= 2
                           /\ tk.calls[i-1].api = "ListFiles"
                           /\ tk.calls[i-1].ok
                     /\ c.api = "CreateReview" =>
                           /\ i >= 3
                           /\ tk.calls[i-1].api = "Messages"
                           /\ tk.calls[i-2].api = "ListFiles"
                           /\ tk.calls[i-2].ok
                           /\ AfterAuth(tk, i-2)
                           /\ c.client = tk.client
                           /\ GatePassed(tk)

\* a task of a configured GitHub App went through all the steps and posted
C22_Witness ==
    /\ githubApp.auth
    /\ \E t \in 1..Len(tasks) :
          /\ tasks[t].pc = "done"
          /\ Len(tasks[t].calls) = 4
          /\ tasks[t].calls[4].api = "CreateReview"
          /\ tasks[t].calls[4].ok

\* the calls whose failure ends the task
TerminalApis == {"CreateInstallationToken", "ListFiles", "CreateReview"}

\* C23: a failed token exchange, diff fetch or posting call is the last call of
\* its task, which has ended; and no call is made twice in a task: every API
\* occurs at most once among its calls and every tenant table is queried at most
\* once.
C23_FailureTerminalNoRetry ==
    \A t \in 1..Len(tasks) :
       LET tk == tasks[t]
       IN  /\ \A i \in 1..Len(tk.calls) :
                 (tk.calls[i].api \in TerminalApis /\ ~tk.calls[i].ok) =>
                     i = Len(tk.calls) /\ tk.pc = "done"
           /\ \A i, j \in 1..Len(tk.calls) :
                 tk.calls[i].api = tk.calls[j].api => i = j
           /\ \A i, j \in 1..Len(tk.queries) :
                 tk.queries[i].table = tk.queries[j].table => i = j

\* a task whose posting call failed, after three calls that went through
C23_Witness ==
    \E t \in 1..Len(tasks) :
       /\ Len(tasks[t].calls) = 4
       /\ tasks[t].calls[4].api = "CreateReview"
       /\ ~tasks[t].calls[4].ok
       /\ tasks[t].calls[2].api = "ListFiles"

\* the calls that publish something on the pull request
PublishingApis == {"CreateComment", "CreateReview"}

\* C27: a task makes at most one publishing call: one plain comment where the
\* size gate said skip, one review where it said go on, never both and never
\* two of a kind.
C27_OnePublication ==
    \A t \in 1..Len(tasks) :
       LET tk == tasks[t]
           published == {i \in 1..Len(tk.calls) : tk.calls[i].api \in PublishingApis}
       IN  /\ Cardinality(published) <= 1
           /\ \A i \in published :
                 /\ tk.calls[i].api = "CreateComment" => ~tk.sizeCheck.ShouldReview
                 /\ tk.calls[i].api = "CreateReview" => tk.sizeCheck.ShouldReview
                 /\ i = Len(tk.calls)
                 /\ tk.pc = "done"

\* a task that ended with the skip notice as its only call
C27_Witness ==
    \E t \in 1..Len(tasks) :
       /\ tasks[t].pc = "done"
       /\ Len(tasks[t].calls) = 1
       /\ tasks[t].calls[1].api = "CreateComment"
       /\ tasks[t].calls[1].ok

\* C28: the skip notice is posted with the client of the personal token, by a
\* task that exchanges no installation token and holds no client of its own,
\* also where the GitHub App is configured; a task gets a client of its own
\* only after its size gate let the pull request through.
C28_SkipNoticeStaticClient ==
    \A t \in 1..Len(tasks) :
       LET tk == tasks[t]
       IN  /\ \A i \in 1..Len(tk.calls) :
                 tk.calls[i].api = "CreateComment" =>
                    /\ tk.calls[i].client = "static"
                    /\ "CreateInstallationToken" \notin Apis(tk)
                    /\ tk.client = "none"
           /\ tk.pc \in {"start", "comment"} => tk.client = "none"
           /\ tk.client # "none" => tk.sizeCheck.ShouldReview
           /\ "CreateInstallationToken" \in Apis(tk) => tk.sizeCheck.ShouldReview

\* with the GitHub App configured, a task posted the skip notice
C28_Witness ==
    /\ githubApp.auth
    /\ \E t \in 1..Len(tasks) :
          /\ ~tasks[t].sizeCheck.ShouldReview
          /\ tasks[t].calls = <<Call("CreateComment", "static",
                                     tasks[t].sizeCheck.SkipMessage, <<>>, TRUE)>>
          /\ tasks[t].sizeCheck.SkipMessage # <<>>

----------------------------------------------------------------------------
(* checkPRSize on its own *)

InitSize ==
    /\ secret = <<>>
    /\ githubApp = [configured |-> FALSE, auth |-> FALSE]
    /\ db = DefaultStore
    /\ reviewConfig = DefaultReviewConfig
    /\ requests = 0
    /\ last = NoRequest
    /\ tasks = <<>>
    /\ \E f \in {0, 20, 21, 25, 26, 30}, a \in {0, 400, 401, 800, 801, 900},
          d \in {0, 399, 400, 401, 1300} :
          probe = [op |-> "checkPRSize",
                   pr |-> [nil |-> FALSE, Draft |-> FALSE, Number |-> 7,
                           ChangedFiles |-> f, Additions |-> a, Deletions |-> d],
                   done |-> FALSE, out |-> NoSizeCheck]

CheckSize ==
    /\ probe.op = "checkPRSize"
    /\ ~probe.done
    /\ probe' = [probe EXCEPT !.done = TRUE, !.out = checkPRSize(probe.pr)]
    /\ UNCHANGED <<secret, githubApp, db, reviewConfig, requests, last, tasks>>

SpecSize == InitSize /\ [][CheckSize]_vars

\* C9: the skip notice names one metric only, the first one exceeded in the
\* order file count, added lines, total changes.
C9_FirstViolationReported ==
    (probe.op = "checkPRSize" /\ probe.done /\ OverHardLimit(probe.pr)) =>
        LET pr == probe.pr
            m  == probe.out.SkipMessage
        IN  /\ Len(m) = 1
            /\ m[1].kind = IF pr.ChangedFiles > 25 THEN "notice_files"
                           ELSE IF pr.Additions > 800 THEN "notice_additions"
                           ELSE "notice_total"
            /\ m[1].args = IF pr.ChangedFiles > 25 THEN <<pr.ChangedFiles, 25>>
                           ELSE IF pr.Additions > 800 THEN <<pr.Additions, 800>>
                           ELSE <<pr.Additions + pr.Deletions, pr.Additions,
                                  pr.Deletions, 1200>>

\* 30 files and 900 additions: the notice is the one about the file count
C9_Witness ==
    /\ probe.op = "checkPRSize"
    /\ probe.done
    /\ probe.pr.ChangedFiles = 30
    /\ probe.pr.Additions = 900
    /\ probe.out.SkipMessage = <<Piece("notice_files", <<30, 25>>)>>

\* the three outcomes of a PRSizeCheck
IsSkip(c)   == ~c.ShouldReview /\ c.SkipMessage # <<>> /\ c.WarningMessage = <<>>
IsWarn(c)   == c.ShouldReview /\ c.WarningMessage # <<>> /\ c.SkipMessage = <<>>
IsSilent(c) == c.ShouldReview /\ c.WarningMessage = <<>> /\ c.SkipMessage = <<>>

\* C11: every PRSizeCheck that checkPRSize returns is in exactly one of the
\* three outcomes skip, warn, proceed silently.
C11_ThreeOutcomes ==
    (probe.op = "checkPRSize" /\ probe.done) =>
        Cardinality({k \in {"skip", "warn", "silent"} :
                        \/ k = "skip" /\ IsSkip(probe.out)
                        \/ k = "warn" /\ IsWarn(probe.out)
                        \/ k = "silent" /\ IsSilent(probe.out)}) = 1

\* 26 files and 401 additions: over a ceiling and over a warning threshold, and
\* the outcome is a skip without a warning text
C11_Witness ==
    /\ probe.op = "checkPRSize"
    /\ probe.done
    /\ probe.pr.ChangedFiles = 26
    /\ probe.pr.Additions = 401
    /\ IsSkip(probe.out)
    /\ ~IsWarn(probe.out)

----------------------------------------------------------------------------
(* getPRDiff on its own *)

\* the files a listing can hold: source and image names in both cases, names
\* that hold an extension elsewhere than at the end, with and without a patch,
\* with 500 and 501 changed lines
ListedFiles ==
    {[Filename |-> f, Patch |-> p, Changes |-> c] :
        f \in {FileGo, FilePng, FilePngUpper, FileNamedPng, FilePngTxt, FileTarGz},
        p \in {<<>>, <<Word(1)>>},
        c \in {500, 501}}

Listings == UNION {[1..n -> ListedFiles] : n \in 0..MaxFiles}

NoDiff == [err |-> FALSE, diff |-> <<>>]

InitDiff ==
    /\ secret = <<>>
    /\ githubApp = [configured |-> FALSE, auth |-> FALSE]
    /\ db = DefaultStore
    /\ reviewConfig = DefaultReviewConfig
    /\ requests = 0
    /\ last = NoRequest
    /\ tasks = <<>>
    /\ \E files \in Listings, listed \in BOOLEAN :
          /\ (~listed => files = <<>>)
          /\ probe = [op |-> "getPRDiff", listed |-> listed, files |-> files,
                      done |-> FALSE, out |-> NoDiff]

BuildDiff ==
    /\ probe.op = "getPRDiff"
    /\ ~probe.done
    /\ probe' = [probe EXCEPT !.done = TRUE,
                              !.out = getPRDiff(probe.listed, probe.files)]
    /\ UNCHANGED <<secret, githubApp, db, reviewConfig, requests, last, tasks>>

SpecDiff == InitDiff /\ [][BuildDiff]_vars

\* the file belongs in the diff: it has a patch, at most 500 changed lines, and
\* its lower-cased name ends in no extension of the denylist
BelongsInDiff(file) ==
    /\ file.Patch # <<>>
    /\ file.Changes <= 500
    /\ ~\E i \in 1..Len(binaryExtensions) :
            LET e == binaryExtensions[i]
                n == file.Filename
            IN  /\ Len(n) >= Len(e)
                /\ \A k \in 1..Len(e) :
                       ToLowerByte(n[Len(n) - Len(e) + k]) = e[k]

\* the positions of the file markers of a diff document, in order
MarkerPositions(diff) ==
    SelectSeq([i \in 1..Len(diff) |-> i], LAMBDA i : diff[i].kind = "file_marker")

\* C12: the diff holds one fragment for each listed file that has a patch, at
\* most 500 changed lines and a name without a denylisted extension, and for no
\* other file (never for a .png file); the fragments stand in listing order,
\* each a line naming the file followed by the file's patch.
C12_DiffFiltering ==
    (probe.op = "getPRDiff" /\ probe.done /\ probe.listed) =>
        LET kept == SelectSeq(probe.files, BelongsInDiff)
            diff == probe.out.diff
            at   == MarkerPositions(diff)
        IN  /\ ~probe.out.err
            /\ Len(at) = Len(kept)
            /\ \A i \in 1..Len(at) :
                  /\ diff[at[i]].args = kept[i].Filename
                  /\ SubSeq(diff, at[i] + 1, at[i] + Len(kept[i].Patch)) = kept[i].Patch
                  /\ ~HasSuffix(ToLower(diff[at[i]].args), <<46, 112, 110, 103>>)
            /\ Len(diff) = Len(kept) * 3

\* a listing of a.PNG and a.go, both with a patch: the diff holds a.go only
C12_Witness ==
    /\ probe.op = "getPRDiff"
    /\ probe.done
    /\ probe.files = <<[Filename |-> FilePngUpper, Patch |-> <<Word(1)>>, Changes |-> 500],
                       [Filename |-> FileGo, Patch |-> <<Word(1)>>, Changes |-> 500]>>
    /\ Len(MarkerPositions(probe.out.diff)) = 1
    /\ probe.out.diff[1].args = FileGo

----------------------------------------------------------------------------
(* parseClaudeResponse on its own *)

\* the sections a response is made of.  Words: 1 the summary, 2 and 3 the two
\* lines of the poem, 4 and 7 file paths, 5 and 8 category labels, 6 and 9
\* comment texts
SectionText(kind) ==
    CASE kind = "summary" ->
            <<Tok("SUMMARY:"), Tok("$$"), Word(1), Tok("$$")>>
      [] kind = "poem" ->
            <<Tok("POEM:"), Tok("$$"), Word(2), Tok("newline"), Word(3), Tok("$$")>>
      [] kind = "comment1" ->
            <<Tok("PR_COMMENT:"), Word(4), Tok(":"), Num(10), Tok(":"),
              Tok("space"), Word(5), Tok(":"), Tok("$$"), Word(6), Tok("$$")>>
      [] kind = "comment2" ->
            <<Tok("PR_COMMENT:"), Word(7), Tok(":"), Num(20), Tok(":"),
              Tok("space"), Word(8), Tok(":"), Tok("$$"), Word(9), Tok("$$")>>
      [] kind = "twofields" ->
            <<Tok("PR_COMMENT:"), Word(4), Tok(":"), Num(10),
              Tok("$$"), Word(6), Tok("$$")>>
      [] kind = "badline" ->
            <<Tok("PR_COMMENT:"), Word(4), Tok(":"), Word(10), Tok(":"),
              Tok("space"), Word(5), Tok(":"), Tok("$$"), Word(6), Tok("$$")>>
      [] kind = "onefield" ->
            <<Tok("PR_COMMENT:"), Word(4)>>
      [] kind = "twoopen" ->
            <<Tok("PR_COMMENT:"), Word(4), Tok(":"), Num(10)>>
      [] kind = "comment0" ->
            <<Tok("PR_COMMENT:"), Word(4), Tok(":"), Num(0), Tok(":"),
              Tok("space"), Word(5), Tok(":"), Tok("$$"), Word(6), Tok("$$")>>
      [] kind = "emptysummary" ->
            <<Tok("SUMMARY:"), Tok("$$"), Tok("$$")>>
      [] kind = "emptypoem" ->
            <<Tok("POEM:"), Tok("$$"), Tok("space"), Tok("$$")>>

SectionKinds == {"summary", "poem", "comment1", "comment2",
                 "twofields", "badline", "onefield", "twoopen",
                 "emptysummary", "emptypoem", "comment0"}
WellFormedBlocks == {"comment1", "comment2", "comment0"}
MalformedBlocks == {"twofields", "badline", "onefield", "twoopen"}

\* the sections in the order given, each followed by the separator
RECURSIVE ResponseText(_, _)
ResponseText(sections, sep) ==
    IF sections = <<>> THEN <<>>
    ELSE SectionText(Head(sections)) \o sep \o ResponseText(Tail(sections), sep)

\* every response of at most MaxSections different sections, in every order
SectionOrders ==
    {q \in UNION {[1..n -> SectionKinds] : n \in 0..MaxSections} :
        \A i, j \in 1..Len(q) : q[i] = q[j] => i = j}

Separators == {<<>>, <<Tok("space")>>}

\* the diffs handed to the parser: of a PR that changes lines 10 to 12 of a.go,
\* and of a PR whose files are all left out
ParseDiffs ==
    {getPRDiff(TRUE, <<[Filename |-> FileGo,
                        Patch |-> <<Piece("hunk", <<10, 3>>), Word(1)>>,
                        Changes |-> 3]>>).diff,
     getPRDiff(TRUE, <<[Filename |-> FilePng, Patch |-> <<Word(1)>>,
                        Changes |-> 3]>>).diff}

InitParse ==
    /\ secret = <<>>
    /\ githubApp = [configured |-> FALSE, auth |-> FALSE]
    /\ db = DefaultStore
    /\ reviewConfig = DefaultReviewConfig
    /\ requests = 0
    /\ last = NoRequest
    /\ tasks = <<>>
    /\ \E sections \in SectionOrders, sep \in Separators, diff \in ParseDiffs :
          probe = [op |-> "parseClaudeResponse", sections |-> sections, sep |-> sep,
                   diff |-> diff, done |-> FALSE, out |-> NoReview]

Parse ==
    /\ probe.op = "parseClaudeResponse"
    /\ ~probe.done
    /\ probe' = [probe EXCEPT
                    !.done = TRUE,
                    !.out = parseClaudeResponse(ResponseText(probe.sections, probe.sep),
                                               probe.diff)]
    /\ UNCHANGED <<secret, githubApp, db, reviewConfig, requests, last, tasks>>

SpecParse == InitParse /\ [][Parse]_vars

SectionSet == {probe.sections[i] : i \in 1..Len(probe.sections)}

\* C13: a response of one SUMMARY section, one POEM section and one well-formed
\* PR_COMMENT block parses to a summary that holds the summary text and the
\* poem, and to exactly one comment with the block's path and line and a body
\* that holds the label and the comment text.
C13_ParserRoundTrip ==
    (probe.op = "parseClaudeResponse" /\ probe.done
        /\ SectionSet = {"summary", "poem", "comment1"}) =>
        /\ Contains(probe.out.Summary, Word(1))
        /\ Contains(probe.out.Summary, Word(2))
        /\ Contains(probe.out.Summary, Word(3))
        /\ Len(probe.out.Comments) = 1
        /\ probe.out.Comments[1].Path = <<Word(4)>>
        /\ probe.out.Comments[1].Line = 10
        /\ Contains(probe.out.Comments[1].Body, Word(5))
        /\ Contains(probe.out.Comments[1].Body, Word(6))

\* the response SUMMARY, POEM, PR_COMMENT in that order was parsed into its
\* summary, poem and one comment
C13_Witness ==
    /\ probe.op = "parseClaudeResponse"
    /\ probe.done
    /\ probe.sections = <<"summary", "poem", "comment1">>
    /\ Len(probe.out.Comments) = 1
    /\ probe.out.Comments[1].Body = <<Word(5), Tok(":"), Tok("blankline"), Word(6)>>
    /\ Len(probe.out.Summary) = 6

\* the path, line, label and text of a well-formed block
BlockFields(kind) ==
    IF kind = "comment1" THEN [Path |-> <<Word(4)>>, Line |-> 10, label |-> Word(5),
                               content |-> Word(6)]
    ELSE IF kind = "comment0" THEN [Path |-> <<Word(4)>>, Line |-> 0, label |-> Word(5),
                                    content |-> Word(6)]
    ELSE [Path |-> <<Word(7)>>, Line |-> 20, label |-> Word(8), content |-> Word(9)]

\* C14: a block whose header has fewer than three fields or whose line is not
\* a number yields no comment and does not end the parsing: the comments are
\* those of the well-formed blocks of the response, one each, in their order.
C14_MalformedDropped ==
    (probe.op = "parseClaudeResponse" /\ probe.done) =>
        LET wf == SelectSeq(probe.sections, LAMBDA k : k \in WellFormedBlocks)
            cs == probe.out.Comments
        IN  /\ Len(cs) = Len(wf)
            /\ \A i \in 1..Len(wf) :
                  /\ cs[i].Path = BlockFields(wf[i]).Path
                  /\ cs[i].Line = BlockFields(wf[i]).Line
                  /\ Contains(cs[i].Body, BlockFields(wf[i]).label)
                  /\ Contains(cs[i].Body, BlockFields(wf[i]).content)

\* a two-field block between two well-formed blocks: two comments came out
C14_Witness ==
    /\ probe.op = "parseClaudeResponse"
    /\ probe.done
    /\ probe.sections = <<"comment1", "twofields", "comment2">>
    /\ Len(probe.out.Comments) = 2
    /\ probe.out.Comments[2].Line = 20

\* the comments of a result, without their order
CommentSet(r) == {r.Comments[i] : i \in 1..Len(r.Comments)}

\* C15: a response made of a SUMMARY section, a POEM section and well-formed
\* PR_COMMENT blocks parses, in every order of its sections, to the same
\* summary and to comments with the same paths, lines and bodies.
C15_OrderIndependent ==
    (probe.op = "parseClaudeResponse" /\ probe.done
        /\ {"summary", "poem"} \subseteq SectionSet
        /\ SectionSet \subseteq {"summary", "poem"} \cup WellFormedBlocks) =>
        \A q \in SectionOrders :
            (Len(q) = Len(probe.sections) /\ {q[i] : i \in 1..Len(q)} = SectionSet) =>
                LET r == parseClaudeResponse(ResponseText(q, probe.sep), probe.diff)
                IN  /\ r.Summary = probe.out.Summary
                    /\ CommentSet(r) = CommentSet(probe.out)

\* the first section of the response that is of one of the kinds, "none" if
\* there is none: strings.Index finds the first header
FirstOf(kinds) ==
    LET hits == {i \in 1..Len(probe.sections) : probe.sections[i] \in kinds}
    IN  IF hits = {} THEN "none"
        ELSE probe.sections[CHOOSE i \in hits : \A j \in hits : i <= j]

\* what stands between the delimiters of a SUMMARY or POEM section
ContentOf(kind) ==
    CASE kind = "summary" -> <<Word(1)>>
      [] kind = "poem"    -> <<Word(2), Tok("newline"), Word(3)>>
      [] OTHER            -> <<>>

FileOfPath(path) ==
    IF path = <<Word(4)>> THEN FileGo
    ELSE IF path = <<Word(7)>> THEN FileNamedPng
    ELSE <<>>

\* the lines of the post-change side that the diff shows of a file: those of the
\* hunks that follow the marker of the file
LinesInDiff(diff, filename) ==
    {l \in 1..30 :
        \E i, j \in 1..Len(diff) :
            /\ i < j
            /\ diff[i] = Piece("file_marker", filename)
            /\ diff[j].kind = "hunk"
            /\ \A k \in (i + 1)..j : diff[k].kind # "file_marker"
            /\ l >= diff[j].args[1]
            /\ l < diff[j].args[1] + diff[j].args[2]}

\* C26: every comment that parseClaudeResponse returns has a positive line
\* number that is a line of the post-change side of its file shown in the diff
\* handed to the parser; so its path is a file of that diff.
C26_LinesExistInDiff ==
    (probe.op = "parseClaudeResponse" /\ probe.done) =>
        \A i \in 1..Len(probe.out.Comments) :
            LET c == probe.out.Comments[i]
            IN  /\ c.Line > 0
                /\ c.Line \in LinesInDiff(probe.diff, FileOfPath(c.Path))

----------------------------------------------------------------------------
(* The whole program: the endpoint and the tasks it launches *)

\* the requests of the whole-program specification: a small PR of a tracked
\* repository, a big one, a PR of an untracked repository, a synchronize event,
\* each signed; the first one unsigned as well; and a GET
CoreBodies == {BodyOf(0, 0, 1, 1, 1), BodyOf(1, 0, 2, 1, 1), BodyOf(0, 0, 1, 2, 2),
               BodyOf(2, 0, 1, 1, 1)}

CoreRequests ==
    {Request("POST", FALSE, b, SignatureHeader(ServerKey, b)) : b \in CoreBodies}
    \cup {Request("POST", FALSE, BodyOf(0, 0, 1, 1, 1), <<>>),
          Request("GET", FALSE, 0, <<>>)}

Next ==
    \/ HandleWebhook(CoreRequests)
    \/ Respond
    \/ Resolve
    \/ PostComment
    \/ Authenticate
    \/ GetPRDiff
    \/ GenerateReview
    \/ PostReview

Spec == Init /\ [][Next]_vars

\* C18: the handler of a triggering event writes its response beside the task
\* it started, never after it: whenever the response is outstanding the handler
\* can write it, whatever the task has done by then; what it writes is 200; and
\* no step of a task changes a response already written.
C18_ResponseNotWaiting ==
    /\ [][/\ (~last.written /\ last'.written) =>
                 (last'.status = 200 /\ tasks' = tasks)
          /\ (requests' = requests + 1 /\ HasStep(last', "go")) =>
                 /\ tasks'[Len(tasks')].pc = "start"
                 /\ tasks'[Len(tasks')].calls = <<>>
          /\ (last.written /\ requests' = requests) => last' = last]_vars
    /\ [](~last.written => ENABLED Respond)

\* the response of a triggering event was written, 200, while its task had not
\* taken a step
C18_Witness ==
    /\ last.written
    /\ last.status = 200
    /\ HasStep(last, "go")
    /\ tasks[Len(tasks)].pc = "start"
    /\ tasks[Len(tasks)].calls = <<>>

\* the request passes the signature check, or there is none
PassesGate(l) == secret = <<>> \/ MatchesHMAC(secret, l.body, l.signature)

\* C19: a request that is not a POST is answered 405; a POST that passes the
\* signature check with a body that is not JSON is answered 400; a POST that
\* passes it with a valid event that does not trigger (a draft, or an action
\* other than opened and ready_for_review) is answered 200; and none of the
\* three starts a task.
C19_EndpointAnswers ==
    [][(requests' = requests + 1) =>
          LET l == last'
              payload == Unmarshal(l.body)
              posted  == l.method = "POST" /\ ~l.readErr /\ PassesGate(l)
          IN  /\ l.method # "POST" =>
                    l.status = 405 /\ l.written /\ tasks' = tasks
              /\ (posted /\ l.body \notin 1..WellFormed) =>
                    l.status = 400 /\ l.written /\ tasks' = tasks
              /\ (posted /\ l.body \in 1..WellFormed
                         /\ (payload.PullRequest.Draft
                             \/ payload.Action \notin {"opened", "ready_for_review"})) =>
                    l.status = 200 /\ l.written /\ tasks' = tasks]_vars

\* with a secret set, a signed closed event was answered 200 and no task exists
C19_Witness ==
    /\ requests = 1
    /\ secret # <<>>
    /\ last.method = "POST"
    /\ last.body = BodyOf(3, 0, 1, 1, 1)
    /\ last.status = 200
    /\ last.written
    /\ tasks = <<>>

\* the step a task stands at can be taken
CanStep(t) ==
    CASE tasks[t].pc = "start"   -> ENABLED StepResolve(t)
      [] tasks[t].pc = "comment" -> ENABLED StepComment(t)
      [] tasks[t].pc = "auth"    -> ENABLED StepAuth(t)
      [] tasks[t].pc = "diff"    -> ENABLED StepDiff(t)
      [] tasks[t].pc = "model"   -> ENABLED StepModel(t)
      [] tasks[t].pc = "post"    -> ENABLED StepPost(t)
      [] OTHER                   -> TRUE

\* C21: a triggering event starts a task of its own also while a task for the
\* same pull request is in flight, and leaves that task as it is; and every
\* task can take its next step whatever the other tasks are doing, so two tasks
\* for one pull request run side by side and post in either order.
C21_NoMutualExclusion ==
    /\ [][(requests' = requests + 1 /\ HasStep(last', "go")) =>
             LET payload == Unmarshal(last'.body)
             IN  /\ Len(tasks') = Len(tasks) + 1
                 /\ \A t \in 1..Len(tasks) : tasks'[t] = tasks[t]
                 /\ tasks'[Len(tasks')].pc = "start"
                 /\ tasks'[Len(tasks')].repo = payload.Repository
                 /\ tasks'[Len(tasks')].pr = payload.PullRequest]_vars
    /\ [](\A t \in 1..Len(tasks) : CanStep(t))

\* two tasks for the same pull request: the one started second has posted its
\* review while the one started first is still about to post its own
C21_Witness ==
    /\ Len(tasks) >= 2
    /\ tasks[1].repo = tasks[2].repo
    /\ tasks[1].pr = tasks[2].pr
    /\ tasks[1].pc = "post"
    /\ tasks[2].pc = "done"
    /\ \E i \in 1..Len(tasks[2].calls) :
          tasks[2].calls[i].api = "CreateReview" /\ tasks[2].calls[i].ok

\* the place of a check in the handler
Rank(step) ==
    CASE step = "method"    -> 1
      [] step = "read"      -> 2
      [] step = "signature" -> 3
      [] step = "decode"    -> 4
      [] step = "trigger"   -> 5
      [] OTHER              -> 6

\* C29: the handler checks the method, then the signature, then decodes the
\* body, then decides on the trigger.  With a secret set, a POST whose body was
\* read and whose signature is wrong is answered 401 without its body being
\* decoded, also where the body is no JSON; a request that is no POST is
\* answered 405 after the method check alone.
C29_CheckOrder ==
    last.method # "" =>
       /\ \A i, j \in 1..Len(last.steps) :
             i < j => Rank(last.steps[i]) < Rank(last.steps[j])
       /\ last.method # "POST" =>
             last.status = 405 /\ last.steps = <<"method">>
       /\ (last.method = "POST" /\ ~last.readErr /\ secret # <<>>
              /\ ~MatchesHMAC(secret, last.body, last.signature)) =>
             /\ last.status = 401
             /\ HasStep(last, "signature")
             /\ ~HasStep(last, "decode")
       /\ (HasStep(last, "decode") /\ secret # <<>>) =>
             MatchesHMAC(secret, last.body, last.signature)

\* with a secret set, a POST of a body that is no JSON under a signature made
\* with another key was answered 401
C29_Witness ==
    /\ secret # <<>>
    /\ last.method = "POST"
    /\ ~last.readErr
    /\ last.body \notin 1..WellFormed
    /\ last.signature = SignatureHeader(<<120>>, last.body)
    /\ last.status = 401
    /\ last.written

\* C30: an event that passed the signature gate, of action opened or
\* ready_for_review, not marked draft, whose payload lacks the pull request, the
\* repository or the installation, starts a task all the same: with pull
\* request number 0 where the pull request is missing, with empty owner and
\* repository names where the repository is missing, with installation id 0
\* where the installation is missing.
C30_MissingObjectsTrigger ==
    \A a \in 0..1, pr \in 0..2, repo \in 0..2, inst \in 0..2 :
       (/\ pr = 0 \/ repo = 0 \/ inst = 0
        /\ last.method = "POST"
        /\ ~last.readErr
        /\ PassesGate(last)
        /\ last.body = BodyOf(a, 0, pr, repo, inst)) =>
           /\ HasStep(last, "go")
           /\ Len(tasks) >= 1
           /\ LET tk == tasks[Len(tasks)]
              IN  /\ tk.pc = "start"
                  /\ pr = 0 => tk.pr.nil /\ tk.pr.Number = 0
                  /\ repo = 0 => tk.repo.Owner = "" /\ tk.repo.Name = ""
                  /\ inst = 0 => tk.installationID = 0

\* a signed opened event without pull request, repository and installation has
\* started a task
C30_Witness ==
    /\ secret # <<>>
    /\ last.method = "POST"
    /\ last.body = BodyOf(0, 0, 0, 0, 0)
    /\ MatchesHMAC(secret, last.body, last.signature)
    /\ Len(tasks) >= 1
    /\ tasks[Len(tasks)].pr.Number = 0
    /\ tasks[Len(tasks)].repo = NilRepo
    /\ tasks[Len(tasks)].installationID = 0

====
